---- MODULE Spec2Model ----
(***************************************************************************)
(* Model of the raw material sourcing orchestrator:                        *)
(*   backend/workflow_orchestrator.py  RawMaterialSourcingWorkflow         *)
(*   backend/app/agents/base_agent.py  BaseAgent (run, use_tool)           *)
(*   backend/agents/leader_agent.py, expert_agent.py                       *)
(*   backend/tools/claude_tool.py, duckduckgo_tool.py                      *)
(*                                                                         *)
(* Eight specifications share the variables below:                         *)
(*   Spec        one call of execute_comprehensive_workflow on a fresh     *)
(*               workflow object, from its first line to its return;       *)
(*   SpecFair    Spec under the event loop's scheduling (liveness);        *)
(*   SpecExperts the expert-evaluation and aggregation code (Phase 3 and   *)
(*               Phase 4 of execute_comprehensive_workflow), entered with  *)
(*               a Phase-2 output drawn from a bounded set;                *)
(*   SpecAgent   one BaseAgent: run() and use_tool() against a provider    *)
(*               whose execute may fault;                                  *)
(*   SpecPhases  Spec and SpecExperts together;                            *)
(*   SpecTool    the provider instances (ClaudeTool or DuckDuckGoTool) of  *)
(*               the agents of an execution, one agent after the other,    *)
(*               each with its cache, called by interleaved coroutines;    *)
(*   SpecCache   one provider instance called with ever new argument sets  *)
(*               until its cache has been cleaned several times;           *)
(*   SpecScoring the scoring, ranking, confidence, score-extraction,       *)
(*               result-normalization and construction functions applied   *)
(*               to inputs drawn from bounded sets.                        *)
(* In Spec the LeaderAgent constructor call of line 430 raises TypeError   *)
(* (two arguments for a one-parameter __init__), so a whole execution      *)
(* never gets past the first material of Phase 2; the later phases are     *)
(* modelled by SpecExperts.                                                *)
(* Scores are integers in tenths (50 is 5.0), composites in hundredths.    *)
(***************************************************************************)
EXTENDS Integers, Sequences, FiniteSets, TLC

VARIABLES
    \* ---- RawMaterialSourcingWorkflow (one execution) ----
    industry_context,   \* argument of execute_comprehensive_workflow
    pc,                 \* position of the execute_comprehensive_workflow coroutine
    phase,              \* phase the execution is in (the PHASE banners of the code)
    status,             \* self.status
    current_phase,      \* self.current_phase
    results,            \* self.results (key -> value)
    agents,             \* keys of self.agents
    leaderCtorCalls,    \* number of LeaderAgent(...) constructor calls made
    llmCalls,           \* number of claude_tool.execute calls made by Phase 1
    response,           \* what claude_tool.execute returned to Phase 1
    exc,                \* exception propagating to the workflow's handler
    ret,                \* value returned to the caller
    \* ---- Phase 3 / Phase 4 ----
    priority,           \* config["priority"]
    concurrency,        \* config["concurrency"]
    timeouts,           \* config["timeouts"], in seconds
    matIdx,             \* position of the Phase-3 loop over material_analyses
    ctyIdx,             \* position of the Phase-3 loop over a material's countries
    task,               \* field -> state of the run_expert_agent task of the current pair
    outcome,            \* field -> what the expert agent of the current pair did
    permits,            \* free permits of the pair's asyncio.Semaphore
    taskResult,         \* field -> value returned by run_expert_agent
    detailed_analysis,  \* local detailed_analysis of Phase 3
    outcomeLog,         \* [material, country, field, kind, score] of every expert task ended
    performance_metrics,\* self.performance_metrics
    \* ---- BaseAgent ----
    agPc,               \* position of BaseAgent.run
    agStatus,           \* agent.status
    error_count,        \* agent.error_count
    execution_history,  \* agent.execution_history (status of each entry)
    agRet,              \* value returned by run
    agExc,              \* exception propagating inside run
    raisedIn,           \* lifecycle step of run that raised it
    toolPlan,           \* use_tool invocations execute_task still has to make
    utPc,               \* position of the current use_tool invocation
    retry_count,        \* retry_count of the innermost use_tool frame
    executeCalls,       \* provider execute calls of the current use_tool invocation
    sleeps,             \* asyncio.sleep delays of the current use_tool invocation
    faults,             \* faulted attempts of the current use_tool invocation
    swallowed,          \* exceptions the provider's execute caught in this invocation
    utRet,              \* value returned by the current use_tool invocation
    errBefore,          \* error_count when the current use_tool invocation began
    histBefore          \* len(execution_history) when the invocation began

wfVars == <<industry_context, pc, phase, status, current_phase, results, agents,
            leaderCtorCalls, llmCalls, response, exc, ret>>
exVars == <<priority, concurrency, timeouts, matIdx, ctyIdx, task, outcome, permits, taskResult,
            detailed_analysis, outcomeLog, performance_metrics>>
agVars == <<agPc, agStatus, error_count, execution_history, agRet, agExc,
            raisedIn, toolPlan,
            utPc, retry_count, executeCalls, sleeps, faults, swallowed, utRet,
            errBefore, histBefore>>

VARIABLES
    \* ---- one capability provider instance (ClaudeTool or DuckDuckGoTool) ----
    tool,               \* which provider class the instance is
    now,                \* datetime.now().timestamp(), in seconds
    cache,              \* self.cache, in dict order: [key, content, timestamp]
    request_count,      \* self.request_count
    inv,                \* the execute coroutines: [pc, args]
    toolLog,            \* what each execute coroutine did: [inv, ev, key, text, at]
    \* ---- scoring functions applied to drawn inputs ----
    fn,                 \* the function applied
    arg,                \* its argument
    out                 \* its return value

toolVars == <<tool, now, cache, request_count, inv, toolLog>>
fnVars == <<fn, arg, out>>
auxVars == <<toolVars, fnVars>>
vars == <<wfVars, exVars, agVars, auxVars>>

\* No provider instance under observation.
IdleTool ==
    /\ tool = "none"
    /\ now = 0
    /\ cache = <<>>
    /\ request_count = 0
    /\ inv = <<>>
    /\ toolLog = <<>>

\* No scoring function under observation.
IdleFn ==
    /\ fn = "none"
    /\ arg = <<>>
    /\ out = <<>>

IdleAux == IdleTool /\ IdleFn

(***************************************************************************)
(* Bounds                                                                  *)
(***************************************************************************)
MaxItems == 4

NoValue == [kind |-> "none"]
EmptyMap == [x \in {} |-> NoValue]

Range(s) == {s[i] : i \in DOMAIN s}

RECURSIVE SeqsUpTo(_, _)
SeqsUpTo(S, n) ==
    IF n = 0 THEN {<<>>}
    ELSE LET shorter == SeqsUpTo(S, n - 1)
         IN  shorter \cup {Append(s, x) : s \in {t \in shorter : Len(t) = n - 1}, x \in S}

Take(s, n) == SubSeq(s, 1, IF Len(s) < n THEN Len(s) ELSE n)

(***************************************************************************)
(* Phase 1: _identify_raw_materials                                        *)
(***************************************************************************)
\* Industry contexts and the emergency-table keywords each one contains.
IndustryContexts == {"chocolate factory", "tissue paper mill", "general sourcing"}

Keywords(ctx) ==
    CASE ctx = "chocolate factory" -> {"chocolate"}
      [] ctx = "tissue paper mill" -> {"tissue", "paper"}
      [] OTHER -> {}

\* The emergency table in its iteration order (first matching key wins).
EmergencyTable ==
    << [key |-> "tissue",    materials |-> <<"Wood Pulp", "Recycled Paper", "Bleaching Chemicals">>],
       [key |-> "paper",     materials |-> <<"Wood Pulp", "Recycled Paper", "Water">>],
       [key |-> "chocolate", materials |-> <<"Cocoa Beans", "Sugar", "Milk Powder">>] >>

GenericMaterials == <<"Steel", "Aluminum", "Plastic">>

RECURSIVE FirstMatch(_, _)
FirstMatch(ctx, i) ==
    IF i > Len(EmergencyTable) THEN GenericMaterials
    ELSE IF EmergencyTable[i].key \in Keywords(ctx) THEN EmergencyTable[i].materials
    ELSE FirstMatch(ctx, i + 1)

_get_emergency_materials(ctx, needed_count) == Take(FirstMatch(ctx, 1), needed_count)

\* Items of a "raw_materials" JSON array: strings (possibly padded or blank)
\* and non-strings.
StrItem(s) == [isStr |-> TRUE, v |-> s]
NumItem == [isStr |-> FALSE, v |-> "42"]
RawItems == {StrItem("Cocoa Beans"), StrItem(" Sugar "), StrItem("   "),
             StrItem("Steel"), NumItem}

\* str.strip()
Strip(s) ==
    CASE s = " Sugar " -> "Sugar"
      [] s = " sugar " -> "sugar"
      [] s = "   " -> ""
      [] OTHER -> s

\* A response text, by the structure the parser looks at.
Text(braces, json, items) == [braces |-> braces, json |-> json, items |-> items]
ResponseTexts ==
    {Text(FALSE, "invalid", <<>>), Text(TRUE, "invalid", <<>>),
     Text(TRUE, "nokey", <<>>), Text(TRUE, "notlist", <<>>)}
    \cup {Text(TRUE, "list", items) : items \in SeqsUpTo(RawItems, MaxItems)}

\* ClaudeTool.execute's own except clause turns an internal fault into an
\* error text (no JSON in it).
ClaudeErrorText == Text(FALSE, "invalid", <<>>)

\* ClaudeTool.execute: always a one-element list holding a dict with "text".
ClaudeExecute(fault, text) ==
    [shape |-> "list", len |-> 1, first_has_text |-> TRUE,
     text |-> IF fault THEN ClaudeErrorText ELSE text]

\* str(result) of a list of dicts: Python repr, braces but not valid JSON.
ReprText == Text(TRUE, "invalid", <<>>)

\* RawMaterialSourcingWorkflow._extract_text_from_result
WfExtractText(result) ==
    IF result.shape = "list" /\ result.len > 0 /\ result.first_has_text
    THEN result.text
    ELSE ReprText

RECURSIVE CleanItems(_)
CleanItems(items) ==
    IF items = <<>> THEN <<>>
    ELSE LET it == Head(items)
             rest == CleanItems(Tail(items))
         IN  IF it.isStr /\ Strip(it.v) # "" THEN <<Strip(it.v)>> \o rest ELSE rest

_parse_simple_json_response(text) ==
    IF ~text.braces THEN <<>>
    ELSE IF text.json = "invalid" THEN <<>>
    ELSE IF text.json = "list" THEN CleanItems(text.items)
    ELSE <<>>

AdjustMaterials_NoExtend(ctx, materials) == Take(materials, 3)

\* Lines 196-212: what _identify_raw_materials does with the parsed list.
AdjustMaterials(ctx, materials) ==
    IF Len(materials) = 3 THEN materials
    ELSE IF Len(materials) > 3 THEN Take(materials, 3)
    ELSE materials \o _get_emergency_materials(ctx, 3 - Len(materials))

_identify_raw_materials_fallback(ctx, result) ==
    LET materials == _parse_simple_json_response(WfExtractText(result))
    IN  [raised |-> FALSE, materials |-> AdjustMaterials(ctx, materials)]

\* _identify_raw_materials: the list, or the WorkflowExecutionError it raises.
_identify_raw_materials(ctx, result) ==
    LET materials == _parse_simple_json_response(WfExtractText(result))
    IN  IF materials = <<>>
        THEN [raised |-> TRUE, materials |-> <<>>]
        ELSE [raised |-> FALSE, materials |-> AdjustMaterials(ctx, materials)]

(***************************************************************************)
(* Phase 2: _analyze_material_countries                                    *)
(***************************************************************************)
\* leader_agent.py:18  def __init__(self, raw_material): parameters after self
LeaderAgentInitParams == 1
\* workflow_orchestrator.py:430  LeaderAgent(raw_material, priority): arguments
LeaderAgentCallArgs == 2

\* _get_default_config: "max_countries_per_material"
max_countries_per_material == 3

\* Whether the constructor call of line 430 binds to __init__'s signature;
\* when it does not, the call raises TypeError.
LeaderAgentCallBinds == LeaderAgentCallArgs = LeaderAgentInitParams

(***************************************************************************)
(* execute_comprehensive_workflow                                          *)
(***************************************************************************)
NoExc == "none"
NoRet == [status |-> "NONE"]

\* workflow_orchestrator.py:136: the default of config["concurrency"]["max_expert_agents"]
max_expert_agents == 3

\* _get_default_config lines 138-141: config["timeouts"], in seconds.
agent_timeout == 300
workflow_timeout == 2400

\* The config of a workflow constructed without arguments; Phase 3 not begun.
IdleExperts ==
    /\ priority = "balanced"
    /\ concurrency = [max_expert_agents |-> max_expert_agents]
    /\ timeouts = [agent_timeout |-> agent_timeout, workflow_timeout |-> workflow_timeout]
    /\ matIdx = 0
    /\ ctyIdx = 0
    /\ task = EmptyMap
    /\ outcome = EmptyMap
    /\ permits = 0
    /\ taskResult = EmptyMap
    /\ detailed_analysis = EmptyMap
    /\ outcomeLog = {}
    /\ performance_metrics = [agent_executions |-> 0, successful_agents |-> 0,
                              failed_agents |-> 0]

IdleAgent ==
    /\ agPc = "idle"
    /\ agStatus = "initialized"
    /\ error_count = 0
    /\ execution_history = <<>>
    /\ agRet = NoRet
    /\ agExc = NoExc
    /\ raisedIn = "none"
    /\ toolPlan = 0
    /\ utPc = "idle"
    /\ retry_count = 0
    /\ executeCalls = 0
    /\ sleeps = <<>>
    /\ faults = 0
    /\ swallowed = 0
    /\ utRet = "none"
    /\ errBefore = 0
    /\ histBefore = 0

\* RawMaterialSourcingWorkflow.__init__
Init ==
    /\ industry_context \in IndustryContexts
    /\ pc = "created"
    /\ phase = "INIT"
    /\ status = "PENDING"
    /\ current_phase = "INITIALIZATION"
    /\ results = EmptyMap
    /\ agents = {}
    /\ leaderCtorCalls = 0
    /\ llmCalls = 0
    /\ response = NoValue
    /\ exc = NoExc
    /\ ret = NoRet
    /\ IdleExperts
    /\ IdleAgent
    /\ IdleAux

\* Lines 677-688: entry, PHASE 1 banner, the call of claude_tool.execute.
StartWorkflow ==
    /\ pc = "created"
    /\ pc' = "p1_llm"
    /\ phase' = "MATERIAL_ID"
    /\ llmCalls' = llmCalls + 1
    /\ UNCHANGED <<industry_context, status, current_phase, results, agents,
                   leaderCtorCalls, response, exc, ret>>
    /\ UNCHANGED <<exVars, agVars, auxVars>>

\* Lines 688-699: the model call returns; the response is parsed; either
\* WorkflowExecutionError propagates or Phase 1 completes and Phase 2 begins.
MaterialIdReturns_AsksAgain ==
    /\ pc = "p1_llm"
    /\ \E fault \in BOOLEAN, text \in ResponseTexts :
         LET r == _identify_raw_materials(industry_context, ClaudeExecute(fault, text))
         IN  /\ response' = ClaudeExecute(fault, text)
             /\ IF r.raised \/ r.materials = <<>>
                THEN /\ pc' = "p1_llm"
                     /\ llmCalls' = llmCalls + 1
                     /\ UNCHANGED <<results, phase, exc>>
                ELSE /\ pc' = "p2_loop"
                     /\ phase' = "COUNTRY_DISCOVERY"
                     /\ results' = [k \in {"identified_raw_materials"} |-> r.materials]
                     /\ UNCHANGED <<exc, llmCalls>>
    /\ UNCHANGED <<industry_context, status, current_phase, agents,
                   leaderCtorCalls, ret>>
    /\ UNCHANGED <<exVars, agVars, auxVars>>

MaterialIdReturns ==
    /\ pc = "p1_llm"
    /\ \E fault \in BOOLEAN, text \in ResponseTexts :
         LET r == _identify_raw_materials(industry_context, ClaudeExecute(fault, text))
         IN  /\ response' = ClaudeExecute(fault, text)
             /\ IF r.raised \/ r.materials = <<>>
                THEN /\ pc' = "except"
                     /\ exc' = "WorkflowExecutionError"
                     /\ UNCHANGED <<results, phase>>
                ELSE /\ pc' = "p2_loop"
                     /\ phase' = "COUNTRY_DISCOVERY"
                     /\ results' = [k \in {"identified_raw_materials"} |-> r.materials]
                     /\ exc' = exc
    /\ UNCHANGED <<industry_context, status, current_phase, agents,
                   leaderCtorCalls, llmCalls, ret>>
    /\ UNCHANGED <<exVars, agVars, auxVars>>

\* Lines 703-707 and 429-430: the first material of the Phase-2 loop; the
\* LeaderAgent constructor call, made before the try of line 433, raises
\* TypeError, which leaves _analyze_material_countries and the loop.
DiscoverMaterial ==
    /\ pc = "p2_loop"
    /\ ~LeaderAgentCallBinds
    /\ leaderCtorCalls' = leaderCtorCalls + 1
    /\ pc' = "except"
    /\ exc' = "TypeError"
    /\ UNCHANGED <<industry_context, phase, status, current_phase, results,
                   agents, llmCalls, response, ret>>
    /\ UNCHANGED <<exVars, agVars, auxVars>>

FailedResult_NoPartial ==
    [status |-> "FAILED", error |-> exc, partial_results |-> EmptyMap,
     performance_metrics |-> performance_metrics]

\* Lines 787-803: the except clause of execute_comprehensive_workflow.
FailedResult ==
    [status |-> "FAILED", error |-> exc, partial_results |-> results,
     performance_metrics |-> performance_metrics]

\* Line 787: "except Exception" catches every exception class raised above.
CatchesOnlyWorkflowError(e) == e = "WorkflowExecutionError"
Catches(e) == e \in {"WorkflowExecutionError", "TypeError", "Exception"}

HandleException_Retry ==
    /\ pc = "except"
    /\ status' = "FAILED"
    /\ phase' = "INIT"
    /\ pc' = "created"
    /\ exc' = NoExc
    /\ UNCHANGED <<industry_context, current_phase, results, agents,
                   leaderCtorCalls, llmCalls, response, ret>>
    /\ UNCHANGED <<exVars, agVars, auxVars>>

HandleException ==
    /\ pc = "except"
    /\ IF Catches(exc)
       THEN /\ status' = "FAILED"
            /\ phase' = "FAILED"
            /\ ret' = FailedResult
            /\ pc' = "returned"
            /\ exc' = NoExc
       ELSE /\ pc' = "raised"
            /\ UNCHANGED <<status, phase, ret, exc>>
    /\ UNCHANGED <<industry_context, current_phase, results, agents,
                   leaderCtorCalls, llmCalls, response>>
    /\ UNCHANGED <<exVars, agVars, auxVars>>

Next ==
    \/ StartWorkflow
    \/ MaterialIdReturns
    \/ DiscoverMaterial
    \/ HandleException

Spec == Init /\ [][Next]_vars

\* The execution under the event loop's scheduling: a step of the workflow
\* coroutine that is ready to run is run.  The return of the Phase-1 model
\* call is not such a step: line 183 awaits claude_tool.execute without
\* asyncio.wait_for, so a provider that never answers leaves the coroutine
\* suspended there.
SpecFair ==
    /\ Init /\ [][Next]_vars
    /\ WF_vars(StartWorkflow)
    /\ WF_vars(DiscoverMaterial)
    /\ WF_vars(HandleException)

(***************************************************************************)
(* BaseAgent: run and use_tool (specification SpecAgent)                   *)
(***************************************************************************)
\* base_agent.py:41
max_retries == 3

MaxToolCalls == 2

\* Line 150: retry while retry_count < self.max_retries.
ShouldRetry_OffByOne(rc) == rc <= max_retries
ShouldRetry(rc) == rc < max_retries

\* Line 152: asyncio.sleep(2 ** retry_count).
Backoff_Linear(rc) == 2 * rc
Backoff(rc) == 2 ^ rc

\* Lines 150-155: error_count after a faulted attempt at retry_count rc.
ErrorCountAfterFault_PerAttempt(ec, rc) == ec + 1
ErrorCountAfterFault(ec, rc) == IF ShouldRetry(rc) THEN ec ELSE ec + 1

\* Line 257: "except Exception" of run.
AgentCatches_ValueErrorOnly(e) == e = "ValueError"
AgentCatches(e) == e \in {"ValueError", "TypeError", "Exception"}

IdleWorkflow ==
    /\ industry_context = "general sourcing"
    /\ pc = "none"
    /\ phase = "INIT"
    /\ status = "PENDING"
    /\ current_phase = "INITIALIZATION"
    /\ results = EmptyMap
    /\ agents = {}
    /\ leaderCtorCalls = 0
    /\ llmCalls = 0
    /\ response = NoValue
    /\ exc = NoExc
    /\ ret = NoRet

\* BaseAgent.__init__, and the number of use_tool invocations the agent's
\* execute_task is going to make.
InitAgent ==
    /\ IdleWorkflow
    /\ IdleExperts
    /\ IdleAux
    /\ agPc = "created"
    /\ agStatus = "initialized"
    /\ error_count = 0
    /\ execution_history = <<>>
    /\ agRet = NoRet
    /\ agExc = NoExc
    /\ raisedIn = "none"
    /\ toolPlan \in 0..MaxToolCalls
    /\ utPc = "idle"
    /\ retry_count = 0
    /\ executeCalls = 0
    /\ sleeps = <<>>
    /\ faults = 0
    /\ swallowed = 0
    /\ utRet = "none"
    /\ errBefore = 0
    /\ histBefore = 0

utVars == <<utPc, retry_count, executeCalls, sleeps, faults, swallowed, utRet,
            errBefore, histBefore>>

\* run line 253, pre_execute lines 216-225: status "executing", then
\* validate_inputs returns True, returns False (ValueError) or raises.
PreExecute ==
    /\ agPc = "created"
    /\ agStatus' = "executing"
    /\ \E v \in {"valid", "invalid", "raises"} :
         CASE v = "valid" -> agPc' = "executing" /\ UNCHANGED <<agExc, raisedIn>>
           [] v = "invalid" -> /\ agPc' = "except"
                               /\ agExc' = "ValueError"
                               /\ raisedIn' = "pre_execute"
           [] v = "raises" -> /\ agPc' = "except"
                              /\ agExc' = "Exception"
                              /\ raisedIn' = "pre_execute"
    /\ UNCHANGED <<error_count, execution_history, agRet, toolPlan>>
    /\ UNCHANGED <<utVars, wfVars, exVars, auxVars>>

\* use_tool lines 103-110: entry of an invocation made by execute_task; an
\* unknown tool name returns the error message at once.
UseToolBegin ==
    /\ agPc = "executing"
    /\ utPc = "idle"
    /\ toolPlan > 0
    /\ retry_count' = 0
    /\ executeCalls' = 0
    /\ sleeps' = <<>>
    /\ faults' = 0
    /\ swallowed' = 0
    /\ errBefore' = error_count
    /\ histBefore' = Len(execution_history)
    /\ \E known \in BOOLEAN :
         IF known THEN utPc' = "calling" /\ utRet' = "none"
                  ELSE utPc' = "done" /\ utRet' = "unavailable"
    /\ UNCHANGED <<agPc, agStatus, error_count, execution_history, agRet, agExc,
                   raisedIn, toolPlan>>
    /\ UNCHANGED <<wfVars, exVars, auxVars>>

\* use_tool lines 112-156: one attempt.  The provider's execute returns a
\* result with a text ("text"), returns a result whose text is no string, so
\* that len(text_result) raises ("badtext"), or raises ("fault").  In the
\* providers of the repository an exception inside execute is caught by
\* execute's own except clause, which returns a result holding the error
\* text ("errortext": ClaudeTool lines 82-86, DuckDuckGoTool lines 312-318,
\* MySQLTool lines 160-169); use_tool receives it as any other result.
UseToolAttempt ==
    /\ utPc = "calling"
    /\ executeCalls' = executeCalls + 1
    /\ \E o \in {"text", "errortext", "badtext", "fault"} :
         IF o \in {"text", "errortext"}
         THEN /\ execution_history' = Append(execution_history, "success")
              /\ utRet' = "text"
              /\ utPc' = "done"
              /\ swallowed' = IF o = "errortext" THEN swallowed + 1 ELSE swallowed
              /\ UNCHANGED <<faults, sleeps, error_count>>
         ELSE /\ execution_history' = Append(execution_history, "error")
              /\ faults' = faults + 1
              /\ swallowed' = swallowed
              /\ error_count' = ErrorCountAfterFault(error_count, retry_count)
              /\ IF ShouldRetry(retry_count)
                 THEN /\ sleeps' = Append(sleeps, Backoff(retry_count))
                      /\ utPc' = "sleeping"
                      /\ utRet' = utRet
                 ELSE /\ utRet' = "degraded"
                      /\ utPc' = "done"
                      /\ sleeps' = sleeps
    /\ UNCHANGED <<agPc, agStatus, agRet, agExc, raisedIn, toolPlan, retry_count,
                   errBefore, histBefore>>
    /\ UNCHANGED <<wfVars, exVars, auxVars>>

\* Lines 152-153: the sleep ends and use_tool calls itself with
\* retry_count + 1.
UseToolRetry ==
    /\ utPc = "sleeping"
    /\ retry_count' = retry_count + 1
    /\ utPc' = "calling"
    /\ UNCHANGED <<agPc, agStatus, error_count, execution_history, agRet, agExc,
                   raisedIn, toolPlan, executeCalls, sleeps, faults, swallowed, utRet,
                   errBefore, histBefore>>
    /\ UNCHANGED <<wfVars, exVars, auxVars>>

\* The invocation's value reaches execute_task.
UseToolReturn ==
    /\ utPc = "done"
    /\ agPc = "executing"
    /\ utPc' = "idle"
    /\ toolPlan' = toolPlan - 1
    /\ UNCHANGED <<agPc, agStatus, error_count, execution_history, agRet, agExc,
                   raisedIn, retry_count, executeCalls, sleeps, faults, swallowed, utRet,
                   errBefore, histBefore>>
    /\ UNCHANGED <<wfVars, exVars, auxVars>>

\* run line 254: execute_task ends by returning a dict, by returning
\* something that is no dict, or by raising.
ExecuteTaskEnds ==
    /\ agPc = "executing"
    /\ utPc = "idle"
    /\ toolPlan = 0
    /\ \E e \in {"dict", "nodict", "raises"} :
         CASE e = "dict" -> agPc' = "post_execute" /\ UNCHANGED <<agExc, raisedIn>>
           [] e = "nodict" -> agPc' = "post_execute_nodict" /\ UNCHANGED <<agExc, raisedIn>>
           [] e = "raises" -> /\ agPc' = "except"
                              /\ agExc' = "Exception"
                              /\ raisedIn' = "execute_task"
    /\ UNCHANGED <<agStatus, error_count, execution_history, agRet, toolPlan>>
    /\ UNCHANGED <<utVars, wfVars, exVars, auxVars>>

\* post_execute lines 227-243: the status by error_count, then the metadata
\* is attached to the result, which raises TypeError when it is no dict.
PostExecuteStatus(ec) == IF ec = 0 THEN "completed" ELSE "completed_with_errors"

PostExecute ==
    /\ agPc \in {"post_execute", "post_execute_nodict"}
    /\ agStatus' = PostExecuteStatus(error_count)
    /\ IF agPc = "post_execute"
       THEN /\ agRet' = [execution_metadata |->
                           [error_count |-> error_count,
                            status |-> PostExecuteStatus(error_count)]]
            /\ agPc' = "returned"
            /\ UNCHANGED <<agExc, raisedIn>>
       ELSE /\ agPc' = "except"
            /\ agExc' = "TypeError"
            /\ raisedIn' = "post_execute"
            /\ agRet' = agRet
    /\ UNCHANGED <<error_count, execution_history, toolPlan>>
    /\ UNCHANGED <<utVars, wfVars, exVars, auxVars>>

\* run lines 257-273: the except clause.
RunHandlesException ==
    /\ agPc = "except"
    /\ IF AgentCatches(agExc)
       THEN /\ agStatus' = "failed"
            /\ error_count' = error_count + 1
            /\ agRet' = [status |-> "failed", error |-> agExc,
                         execution_metadata |->
                           [error_count |-> error_count + 1, status |-> "failed"]]
            /\ agPc' = "returned"
            /\ agExc' = NoExc
       ELSE /\ agPc' = "raised"
            /\ UNCHANGED <<agStatus, error_count, agRet, agExc>>
    /\ UNCHANGED <<execution_history, raisedIn, toolPlan>>
    /\ UNCHANGED <<utVars, wfVars, exVars, auxVars>>

NextAgent ==
    \/ PreExecute
    \/ UseToolBegin
    \/ UseToolAttempt
    \/ UseToolRetry
    \/ UseToolReturn
    \/ ExecuteTaskEnds
    \/ PostExecute
    \/ RunHandlesException

SpecAgent == InitAgent /\ [][NextAgent]_vars

(***************************************************************************)
(* Phase 3 and Phase 4 (specification SpecExperts)                         *)
(***************************************************************************)
\* workflow_orchestrator.py:130
ExpertFields == <<"profitability", "stability", "eco-friendly">>
FieldSet == Range(ExpertFields)

\* The limits a workflow is configured with: every limit of at least 1 up
\* to the number of expert tasks of a pair.
ExpertLimits == 1..max_expert_agents

\* Line 548: the value the pair's asyncio.Semaphore is created with.
SemaphoreValue_OneMore(c) == c.max_expert_agents + 1
SemaphoreValue(c) == c.max_expert_agents

\* Lines 577, 591, 599: the neutral score of a failed expert, in tenths.
NeutralScore_Zero == 50 - 50
NeutralScore == 50

\* Scores an expert agent that succeeds may report, in tenths.
ExpertScores == {30, 80}

ProfileWeights_Balanced(p) == [profitability |-> 4, stability |-> 3, eco_friendly |-> 3]

\* _get_default_config lines 103-126: the weights of a priority, in tenths.
ProfileWeights(p) ==
    CASE p = "profitability" -> [profitability |-> 6, stability |-> 2, eco_friendly |-> 2]
      [] p = "stability"     -> [profitability |-> 2, stability |-> 6, eco_friendly |-> 2]
      [] p = "eco-friendly"  -> [profitability |-> 2, stability |-> 2, eco_friendly |-> 6]
      [] OTHER               -> [profitability |-> 4, stability |-> 3, eco_friendly |-> 3]

\* Lines 658-662: field_to_weight.
FieldToWeight(f) == IF f = "eco-friendly" THEN "eco_friendly" ELSE f

\* Nearest integer to a / b (a >= 0, b > 0).
RoundDiv(a, b) == (2 * a + b) \div (2 * b)

\* Lines 664-670: the loop summing score * weight and weight over the
\* fields of expert_results that carry a weight.
RECURSIVE TotalScore(_, _, _)
TotalScore(expert_results, w, fields) ==
    IF fields = <<>> THEN 0
    ELSE LET f == Head(fields)
             rest == TotalScore(expert_results, w, Tail(fields))
         IN  IF f \in DOMAIN expert_results /\ FieldToWeight(f) \in DOMAIN w
             THEN expert_results[f].expert_score * w[FieldToWeight(f)] + rest
             ELSE rest

RECURSIVE TotalWeight(_, _, _)
TotalWeight(expert_results, w, fields) ==
    IF fields = <<>> THEN 0
    ELSE LET f == Head(fields)
             rest == TotalWeight(expert_results, w, Tail(fields))
         IN  IF f \in DOMAIN expert_results /\ FieldToWeight(f) \in DOMAIN w
             THEN w[FieldToWeight(f)] + rest
             ELSE rest

\* _calculate_country_score: expert_results (field -> result) to the
\* composite in hundredths; round(total_score / total_weight, 2), and 5.0
\* when no field carries a weight.
_calculate_country_score(expert_results, p) ==
    LET w == ProfileWeights(p)
        total_score == TotalScore(expert_results, w, ExpertFields)
        total_weight == TotalWeight(expert_results, w, ExpertFields)
    IN  IF total_weight > 0 THEN RoundDiv(10 * total_score, total_weight) ELSE 500

\* _extract_expert_scores
_extract_expert_scores(expert_results) ==
    [f \in DOMAIN expert_results |->
        IF expert_results[f].status # "failed"
        THEN expert_results[f].expert_score
        ELSE 50]

\* What run_expert_agent returns for its field (lines 569-600): the agent's
\* own result when it succeeded (a dict without a "status" key), else a
\* failed or timeout record with the neutral score.
ExpertTaskResult(kind, score) ==
    CASE kind = "ok"      -> [status |-> "absent", error |-> "none", expert_score |-> score]
      [] kind = "timeout" -> [status |-> "timeout", error |-> "timed out", expert_score |-> NeutralScore]
      [] OTHER            -> [status |-> "failed", error |-> kind, expert_score |-> NeutralScore]

\* The performance counters after an expert task ended (lines 569-594).
MetricsAfter(m, kind) ==
    CASE kind = "ok" ->
           [m EXCEPT !.agent_executions = @ + 1, !.successful_agents = @ + 1]
      [] kind = "failed" ->
           [m EXCEPT !.agent_executions = @ + 1, !.failed_agents = @ + 1]
      [] OTHER ->
           [m EXCEPT !.failed_agents = @ + 1]

\* Ordered dict: assignment d[key] = value on a sequence of [key, value].
DictHas(d, key) == \E i \in DOMAIN d : d[i].key = key
DictGet(d, key) == d[CHOOSE i \in DOMAIN d : d[i].key = key].value
DictSet(d, key, value) ==
    IF DictHas(d, key)
    THEN [i \in DOMAIN d |-> IF d[i].key = key THEN [key |-> key, value |-> value] ELSE d[i]]
    ELSE Append(d, [key |-> key, value |-> value])

\* Phase-2 outputs the expert phase is entered with: material_analyses in
\* insertion order, one entry per identified material; and the config of
\* the workflow: its priority, its timeouts (the defaults, or a caller's
\* "timeouts" with a workflow_timeout of 500 seconds) and the expert
\* limits it is run under (every limit, or the default).
Entry(material, st, countries) ==
    [key |-> material, value |-> [status |-> st, countries |-> countries]]
ExpertPhaseInputs ==
    { [priority |-> "profitability",
       limits |-> ExpertLimits,
       timeouts |-> [agent_timeout |-> agent_timeout, workflow_timeout |-> 500],
       material_analyses |->
         << Entry("Cocoa Beans", "success", <<"Ghana", "Ecuador">>),
            Entry("Sugar", "failed", <<"Brazil", "India", "Thailand">>),
            Entry("Milk Powder", "timeout", <<"New Zealand", "Netherlands", "Germany">>) >>],
      [priority |-> "balanced",
       limits |-> {max_expert_agents},
       timeouts |-> [agent_timeout |-> agent_timeout, workflow_timeout |-> workflow_timeout],
       material_analyses |->
         << Entry("Cocoa Beans", "failed", <<"Ecuador", "Ghana", "Ivory Coast">>),
            Entry("Sugar", "success", <<"Brazil">>),
            Entry("Milk Powder", "success", <<"Germany">>) >>] }

Keys(d) == [i \in DOMAIN d |-> d[i].key]

InitExperts ==
    /\ industry_context = "chocolate factory"
    /\ pc = "p3_begin"
    /\ phase = "COUNTRY_DISCOVERY"
    /\ status = "PENDING"
    /\ current_phase = "INITIALIZATION"
    /\ \E in \in ExpertPhaseInputs :
         /\ priority = in.priority
         /\ concurrency \in [max_expert_agents : in.limits]
         /\ timeouts = in.timeouts
         /\ results = [k \in {"identified_raw_materials", "material_analyses"} |->
                        IF k = "material_analyses"
                        THEN in.material_analyses
                        ELSE Keys(in.material_analyses)]
    /\ agents = {}
    /\ leaderCtorCalls = 0
    /\ llmCalls = 1
    /\ response = NoValue
    /\ exc = NoExc
    /\ ret = NoRet
    /\ matIdx = 0
    /\ ctyIdx = 0
    /\ task = EmptyMap
    /\ outcome = EmptyMap
    /\ permits = 0
    /\ taskResult = EmptyMap
    /\ detailed_analysis = <<>>
    /\ outcomeLog = {}
    /\ performance_metrics = [agent_executions |-> 0, successful_agents |-> 0,
                              failed_agents |-> 0]
    /\ IdleAgent
    /\ IdleAux

material_analyses == results["material_analyses"]
CurMaterial == material_analyses[matIdx]
CurCountry == CurMaterial.value.countries[ctyIdx]

wfRest == <<industry_context, status, current_phase, agents, leaderCtorCalls,
            llmCalls, response, exc, ret>>

\* Lines 719-726: PHASE 3 banner, detailed_analysis = {}, the loop begins.
BeginExpertPhase ==
    /\ pc = "p3_begin"
    /\ phase' = "EXPERT_EVAL"
    /\ pc' = "p3_loop"
    /\ matIdx' = 1
    /\ ctyIdx' = 0
    /\ detailed_analysis' = <<>>
    /\ UNCHANGED <<results, wfRest, agVars, auxVars>>
    /\ UNCHANGED <<priority, concurrency, timeouts, task, outcome, permits, taskResult, outcomeLog,
                   performance_metrics>>

\* Lines 726-733: the next material; one whose discovery did not succeed is
\* skipped, else its entry detailed_analysis[material] = {} is made.
NextMaterial ==
    /\ pc = "p3_loop"
    /\ ctyIdx = 0
    /\ matIdx <= Len(material_analyses)
    /\ IF CurMaterial.value.status # "success"
       THEN /\ matIdx' = matIdx + 1
            /\ UNCHANGED <<ctyIdx, detailed_analysis>>
       ELSE /\ detailed_analysis' = DictSet(detailed_analysis, CurMaterial.key, <<>>)
            /\ ctyIdx' = 1
            /\ matIdx' = matIdx
    /\ UNCHANGED <<pc, phase, results, wfRest, agVars, auxVars>>
    /\ UNCHANGED <<priority, concurrency, timeouts, task, outcome, permits, taskResult, outcomeLog,
                   performance_metrics>>

\* Lines 735-740 and 544-605: the next country of the material;
\* _analyze_country_experts makes its semaphore and gathers one
\* run_expert_agent task per expert field.
StartPair ==
    /\ pc = "p3_loop"
    /\ ctyIdx >= 1
    /\ ctyIdx <= Len(CurMaterial.value.countries)
    /\ pc' = "gather"
    /\ permits' = SemaphoreValue(concurrency)
    /\ task' = [f \in FieldSet |-> "pending"]
    /\ outcome' = [f \in FieldSet |-> "none"]
    /\ taskResult' = [f \in FieldSet |-> NoValue]
    /\ UNCHANGED <<phase, results, wfRest, agVars, auxVars>>
    /\ UNCHANGED <<priority, concurrency, timeouts, matIdx, ctyIdx, detailed_analysis, outcomeLog,
                   performance_metrics>>

\* The countries of the material are exhausted.
EndMaterial ==
    /\ pc = "p3_loop"
    /\ ctyIdx >= 1
    /\ ctyIdx > Len(CurMaterial.value.countries)
    /\ matIdx' = matIdx + 1
    /\ ctyIdx' = 0
    /\ UNCHANGED <<pc, phase, results, wfRest, agVars, auxVars>>
    /\ UNCHANGED <<priority, concurrency, timeouts, task, outcome, permits, taskResult, detailed_analysis,
                   outcomeLog, performance_metrics>>

AgentKey(f) == <<"expert", f, CurCountry, CurMaterial.key>>

LogEntry(f, kind, score) ==
    [material |-> CurMaterial.key, country |-> CurCountry, field |-> f,
     kind |-> kind, score |-> score]

\* Lines 552-567: a task acquires the semaphore, constructs its ExpertAgent
\* and stores it in self.agents; a constructor that raises ends the task in
\* the except clause of line 593.
ExpertStart(f) ==
    /\ pc = "gather"
    /\ task[f] = "pending"
    /\ permits > 0
    /\ \E built \in BOOLEAN :
         IF built
         THEN /\ task' = [task EXCEPT ![f] = "running"]
              /\ permits' = permits - 1
              /\ agents' = agents \cup {AgentKey(f)}
              /\ UNCHANGED <<outcome, taskResult, outcomeLog, performance_metrics>>
         ELSE /\ task' = [task EXCEPT ![f] = "done"]
              /\ outcome' = [outcome EXCEPT ![f] = "raises"]
              /\ taskResult' = [taskResult EXCEPT ![f] = ExpertTaskResult("raises", 0)]
              /\ outcomeLog' = outcomeLog \cup {LogEntry(f, "raises", 0)}
              /\ performance_metrics' = MetricsAfter(performance_metrics, "raises")
              /\ UNCHANGED <<permits, agents>>
    /\ UNCHANGED <<industry_context, pc, phase, status, current_phase, results,
                   leaderCtorCalls, llmCalls, response, exc, ret>>
    /\ UNCHANGED <<priority, concurrency, timeouts, matIdx, ctyIdx, detailed_analysis, agVars, auxVars>>

\* The effect of one running task ending with outcome kind.
FinishEffect(f, kind, score) ==
    /\ task' = [task EXCEPT ![f] = "done"]
    /\ outcome' = [outcome EXCEPT ![f] = kind]
    /\ taskResult' = [taskResult EXCEPT ![f] = ExpertTaskResult(kind, score)]
    /\ outcomeLog' = outcomeLog \cup {LogEntry(f, kind, score)}
    /\ performance_metrics' = MetricsAfter(performance_metrics, kind)
    /\ permits' = permits + 1

\* A shared deadline: the timeout of one task ends every running task.
ExpertFinish_CancelsSiblings(f) ==
    /\ pc = "gather"
    /\ task[f] = "running"
    /\ \E kind \in {"ok", "failed", "timeout"}, score \in ExpertScores :
         IF kind = "timeout"
         THEN LET running == {g \in FieldSet : task[g] = "running"}
              IN  /\ task' = [g \in FieldSet |-> IF g \in running THEN "done" ELSE task[g]]
                  /\ outcome' = [g \in FieldSet |->
                                   IF g \in running THEN "timeout" ELSE outcome[g]]
                  /\ taskResult' = [g \in FieldSet |->
                                      IF g \in running
                                      THEN ExpertTaskResult("timeout", 0)
                                      ELSE taskResult[g]]
                  /\ outcomeLog' = outcomeLog \cup {LogEntry(f, "timeout", 0)}
                  /\ performance_metrics' = MetricsAfter(performance_metrics, kind)
                  /\ permits' = permits + Cardinality(running)
         ELSE FinishEffect(f, kind, IF kind = "ok" THEN score ELSE 0)
    /\ UNCHANGED <<wfVars, agVars, auxVars>>
    /\ UNCHANGED <<priority, concurrency, timeouts, matIdx, ctyIdx, detailed_analysis>>

\* Lines 560-592: the agent's run returns a result, returns a failed result,
\* or asyncio.wait_for times out; the semaphore is released.
ExpertFinish(f) ==
    /\ pc = "gather"
    /\ task[f] = "running"
    /\ \E kind \in {"ok", "failed", "timeout"}, score \in ExpertScores :
         FinishEffect(f, kind, IF kind = "ok" THEN score ELSE 0)
    /\ UNCHANGED <<wfVars, agVars, auxVars>>
    /\ UNCHANGED <<priority, concurrency, timeouts, matIdx, ctyIdx, detailed_analysis>>

\* Lines 560-567 and 735-742: asyncio.wait_for raises TimeoutError only
\* after agent_timeout seconds, and the pairs are awaited one after the
\* other, so an execution has run at least agent_timeout seconds for every
\* pair that had an expert time out.
MinElapsed ==
    timeouts.agent_timeout
    * Cardinality({<<e.material, e.country>> : e \in {x \in outcomeLog : x.kind = "timeout"}})

\* Lines 605-626: gather returned; expert_results, the composite and the
\* pair's result.
PairResult(expert_results, p, material, country) ==
    [status |-> "success", country |-> country, raw_material |-> material,
     expert_results |-> expert_results,
     overall_score |-> _calculate_country_score(expert_results, p),
     expert_scores |-> _extract_expert_scores(expert_results)]

\* gather returning at the first task that ended, with the results so far.
GatherReturns_FirstCompleted ==
    /\ pc = "gather"
    /\ \E f \in FieldSet : task[f] = "done"
    /\ LET ended == {f \in FieldSet : task[f] = "done"}
           r == PairResult([f \in ended |-> taskResult[f]], priority,
                           CurMaterial.key, CurCountry)
           inner == DictGet(detailed_analysis, CurMaterial.key)
       IN  detailed_analysis' =
               DictSet(detailed_analysis, CurMaterial.key, DictSet(inner, CurCountry, r))
    /\ ctyIdx' = ctyIdx + 1
    /\ pc' = "p3_loop"
    /\ task' = EmptyMap
    /\ outcome' = EmptyMap
    /\ taskResult' = EmptyMap
    /\ permits' = 0
    /\ UNCHANGED <<phase, results, wfRest, agVars, auxVars>>
    /\ UNCHANGED <<priority, concurrency, timeouts, matIdx, outcomeLog, performance_metrics>>

\* Lines 605-626 and 742: every task has ended; the pair's result is stored
\* in detailed_analysis[material][country].
GatherReturns ==
    /\ pc = "gather"
    /\ \A f \in FieldSet : task[f] = "done"
    /\ LET r == PairResult(taskResult, priority, CurMaterial.key, CurCountry)
           inner == DictGet(detailed_analysis, CurMaterial.key)
       IN  detailed_analysis' =
               DictSet(detailed_analysis, CurMaterial.key, DictSet(inner, CurCountry, r))
    /\ ctyIdx' = ctyIdx + 1
    /\ pc' = "p3_loop"
    /\ task' = EmptyMap
    /\ outcome' = EmptyMap
    /\ taskResult' = EmptyMap
    /\ permits' = 0
    /\ UNCHANGED <<phase, results, wfRest, agVars, auxVars>>
    /\ UNCHANGED <<priority, concurrency, timeouts, matIdx, outcomeLog, performance_metrics>>

RECURSIVE InsertDesc_Unstable(_, _)
InsertDesc_Unstable(sorted, x) ==
    IF sorted = <<>> THEN <<x>>
    ELSE IF Head(sorted).overall_score > x.overall_score
         THEN <<Head(sorted)>> \o InsertDesc_Unstable(Tail(sorted), x)
         ELSE <<x>> \o sorted

\* list.sort(key=overall_score, reverse=True): stable, descending.
RECURSIVE InsertDesc(_, _)
InsertDesc(sorted, x) ==
    IF sorted = <<>> THEN <<x>>
    ELSE IF Head(sorted).overall_score >= x.overall_score
         THEN <<Head(sorted)>> \o InsertDesc(Tail(sorted), x)
         ELSE <<x>> \o sorted

RECURSIVE SortDesc(_)
SortDesc(s) ==
    IF s = <<>> THEN <<>>
    ELSE InsertDesc(SortDesc(SubSeq(s, 1, Len(s) - 1)), s[Len(s)])

RECURSIVE Rankings(_)
Rankings(countries_analysis) ==
    IF countries_analysis = <<>> THEN <<>>
    ELSE LET e == Head(countries_analysis)
             rest == Rankings(Tail(countries_analysis))
         IN  IF e.value.status = "success"
             THEN <<[country |-> e.key, overall_score |-> e.value.overall_score,
                     expert_scores |-> e.value.expert_scores]>> \o rest
             ELSE rest

RECURSIVE Best_LastOfTies(_, _)
Best_LastOfTies(rankings, best) ==
    IF rankings = <<>> THEN best
    ELSE Best_LastOfTies(Tail(rankings),
              IF Head(rankings).overall_score >= best.score
              THEN [country |-> Head(rankings).country, score |-> Head(rankings).overall_score]
              ELSE best)

\* Lines 826-842: the first country with the strictly greatest score above 0.0.
RECURSIVE Best(_, _)
Best(rankings, best) ==
    IF rankings = <<>> THEN best
    ELSE Best(Tail(rankings),
              IF Head(rankings).overall_score > best.score
              THEN [country |-> Head(rankings).country, score |-> Head(rankings).overall_score]
              ELSE best)

\* _generate_comprehensive_recommendations lines 818-853:
\* material_recommendations in insertion order.
RECURSIVE MaterialRecommendations(_)
MaterialRecommendations(detailed) ==
    IF detailed = <<>> THEN <<>>
    ELSE LET e == Head(detailed)
             rest == MaterialRecommendations(Tail(detailed))
             unsorted == Rankings(e.value)
             best == Best(unsorted, [country |-> "None", score |-> 0])
         IN  IF e.value = <<>> THEN rest
             ELSE <<[key |-> e.key,
                     value |-> [recommended_country |-> best.country,
                                recommended_score |-> best.score,
                                country_rankings |-> SortDesc(unsorted)]]>> \o rest

\* Lines 752-758: the loop is over; results["detailed_analysis"], the
\* PHASE 4 banner.
EndExpertPhase ==
    /\ pc = "p3_loop"
    /\ ctyIdx = 0
    /\ matIdx > Len(material_analyses)
    /\ results' = [k \in DOMAIN results \cup {"detailed_analysis"} |->
                     IF k = "detailed_analysis" THEN detailed_analysis ELSE results[k]]
    /\ phase' = "AGGREGATION"
    /\ pc' = "p4"
    /\ UNCHANGED <<wfRest, exVars, agVars, auxVars>>

\* Lines 760-764: Phase 4.
Aggregate ==
    /\ pc = "p4"
    /\ results' = [k \in DOMAIN results \cup {"final_recommendations"} |->
                     IF k = "final_recommendations"
                     THEN [priority_focus |-> priority,
                           material_recommendations |->
                               MaterialRecommendations(results["detailed_analysis"])]
                     ELSE results[k]]
    /\ pc' = "p4_done"
    /\ UNCHANGED <<phase, wfRest, exVars, agVars, auxVars>>

\* Lines 766-785: status COMPLETED and the result.
Complete ==
    /\ pc = "p4_done"
    /\ status' = "COMPLETED"
    /\ phase' = "COMPLETED"
    /\ ret' = [status |-> "COMPLETED",
               identified_raw_materials |-> results["identified_raw_materials"],
               material_analyses |-> results["material_analyses"],
               detailed_analysis |-> results["detailed_analysis"],
               final_recommendations |-> results["final_recommendations"],
               performance_metrics |-> performance_metrics]
    /\ pc' = "returned"
    /\ UNCHANGED <<industry_context, current_phase, results, agents, leaderCtorCalls,
                   llmCalls, response, exc>>
    /\ UNCHANGED <<exVars, agVars, auxVars>>

NextExperts ==
    \/ BeginExpertPhase
    \/ NextMaterial
    \/ StartPair
    \/ EndMaterial
    \/ \E f \in FieldSet : ExpertStart(f)
    \/ \E f \in FieldSet : ExpertFinish(f)
    \/ GatherReturns
    \/ EndExpertPhase
    \/ Aggregate
    \/ Complete

SpecExperts == InitExperts /\ [][NextExperts]_vars

\* Both of the above: the whole execution, and its Phase 3 and Phase 4.
SpecPhases == (Init \/ InitExperts) /\ [][Next \/ NextExperts]_vars

(***************************************************************************)
(* Capability providers: ClaudeTool.execute and DuckDuckGoTool.execute     *)
(* (tools/claude_tool.py, tools/duckduckgo_tool.py).  The provider         *)
(* instance of one agent at a time, called by MaxInvocations coroutines    *)
(* that the event loop interleaves at the provider's await; up to          *)
(* MaxAgents agents, each with instances of its own.                       *)
(***************************************************************************)
MaxInvocations == 2
MaxTicks == 2
MaxAgents == 2

Tools == {"claude", "duckduckgo"}

\* self.cache_ttl, in seconds
cache_ttl(t) == IF t = "claude" THEN 1800 ELSE 300
\* the size above which execute cleans the cache, and how many entries go
cache_ceiling(t) == IF t = "claude" THEN 50 ELSE 100
cache_evicted(t) == IF t = "claude" THEN 10 ELSE 20

\* str.lower()
Lower(s) ==
    CASE s = "Sugar" -> "sugar"
      [] s = " Sugar " -> " sugar "
      [] OTHER -> s

\* The arguments of an invocation: text is the prompt (ClaudeTool) or the
\* query (DuckDuckGoTool); option is response_format (ClaudeTool) or
\* safe_search (DuckDuckGoTool).  All other arguments keep their defaults.
ToolArgs(text, option) == [text |-> text, option |-> option]
Arguments == {ToolArgs("Sugar", "default"), ToolArgs("Sugar", "other"),
              ToolArgs(" sugar ", "default"), ToolArgs("   ", "default")}

\* _get_cache_key: json.dumps of the fields the key is built from.
_get_cache_key(t, arguments) ==
    IF t = "claude" THEN [prompt |-> Strip(arguments.text)]
    ELSE [query |-> Strip(Lower(arguments.text))]

\* Position of key in the cache, 0 when absent.
CacheIndex(c, key) ==
    IF \E i \in DOMAIN c : c[i].key = key
    THEN CHOOSE i \in DOMAIN c : c[i].key = key
    ELSE 0

\* _is_cache_valid / the TTL test of ClaudeTool.execute line 46
_is_cache_valid_Inverted(t, timestamp, clock) == (clock - timestamp) >= cache_ttl(t)
_is_cache_valid(t, timestamp, clock) == (clock - timestamp) < cache_ttl(t)

\* The text a computation produces.  ClaudeTool appends the running
\* request_count to the content (line 67); DuckDuckGoTool formats the
\* results of the stripped query (line 296).
ProviderText(t, arguments, count) ==
    IF t = "claude"
    THEN [of |-> Strip(arguments.text), format |-> arguments.option, calls |-> count]
    ELSE [of |-> Strip(arguments.text), format |-> "default", calls |-> 0]

ValidationErrorText == [of |-> "Error: required and cannot be empty", format |-> "default", calls |-> 0]
ExecutionFailedText == [of |-> "execution failed", format |-> "default", calls |-> 0]

\* sorted(self.cache.items(), key=lambda x: x[1][1]): stable, ascending timestamp
RECURSIVE InsertByTime(_, _)
InsertByTime(sorted, x) ==
    IF sorted = <<>> THEN <<x>>
    ELSE IF sorted[Len(sorted)].timestamp <= x.timestamp THEN Append(sorted, x)
    ELSE Append(InsertByTime(SubSeq(sorted, 1, Len(sorted) - 1), x), sorted[Len(sorted)])

RECURSIVE SortByTime(_)
SortByTime(c) ==
    IF c = <<>> THEN <<>>
    ELSE InsertByTime(SortByTime(SubSeq(c, 1, Len(c) - 1)), c[Len(c)])

CacheStore_NewestFirst(t, c, key, content, clock) ==
    LET e == [key |-> key, content |-> content, timestamp |-> clock]
        i == CacheIndex(c, key)
        stored == IF i = 0 THEN Append(c, e) ELSE [c EXCEPT ![i] = e]
        sorted == SortByTime(stored)
        newest == SubSeq(sorted, Len(sorted) - cache_evicted(t) + 1, Len(sorted))
        gone == {newest[j].key : j \in DOMAIN newest}
    IN  IF Len(stored) > cache_ceiling(t)
        THEN SelectSeq(stored, LAMBDA x : x.key \notin gone)
        ELSE stored

\* Lines 70-76 (ClaudeTool), 299-306 (DuckDuckGoTool): store, then clean.
CacheStore(t, c, key, content, clock) ==
    LET e == [key |-> key, content |-> content, timestamp |-> clock]
        i == CacheIndex(c, key)
        stored == IF i = 0 THEN Append(c, e) ELSE [c EXCEPT ![i] = e]
        oldest == SubSeq(SortByTime(stored), 1, cache_evicted(t))
        gone == {oldest[j].key : j \in DOMAIN oldest}
    IN  IF Len(stored) > cache_ceiling(t)
        THEN SelectSeq(stored, LAMBDA x : x.key \notin gone)
        ELSE stored

ToolEvent(i, ev, key, text) == [inv |-> i, ev |-> ev, key |-> key, text |-> text, at |-> now]

\* ClaudeTool.__init__ / DuckDuckGoTool.__init__
InitTool ==
    /\ tool \in Tools
    /\ now = 0
    /\ cache = <<>>
    /\ request_count = 0
    /\ inv = [i \in 1..MaxInvocations |-> [pc |-> "idle", args |-> <<>>]]
    /\ toolLog = <<>>
    /\ IdleFn
    /\ IdleWorkflow
    /\ IdleExperts
    /\ IdleAgent

toolRest == <<fnVars, wfVars, exVars, agVars>>

\* The part of execute after the await: the computation, the counter, the
\* store and the return (ClaudeTool lines 60-80, DuckDuckGoTool lines 293-310).
Compute(i, arguments) ==
    LET key == _get_cache_key(tool, arguments)
        count == IF tool = "claude" THEN request_count + 1 ELSE request_count
        text == ProviderText(tool, arguments, count)
    IN  /\ request_count' = count
        /\ cache' = CacheStore(tool, cache, key, text, now)
        /\ inv' = [inv EXCEPT ![i] = [pc |-> "returned", args |-> arguments]]
        /\ toolLog' = Append(toolLog, ToolEvent(i, "computed", key, text))

\* The provider suspends the caller between the cache test and the store:
\* ClaudeTool always (await asyncio.sleep(0.5), line 59), DuckDuckGoTool
\* when _rate_limit has to sleep (line 108).
Suspends(t) == IF t = "claude" THEN {TRUE} ELSE BOOLEAN

\* execute from its first line to its first await or its return
\* (ClaudeTool lines 28-59, DuckDuckGoTool lines 265-290).
ToolCall(i) ==
    /\ tool # "none"
    /\ inv[i].pc = "idle"
    /\ \A j \in 1..(i - 1) : inv[j].pc # "idle"
    /\ \E arguments \in Arguments :
         LET key == _get_cache_key(tool, arguments)
             at == CacheIndex(cache, key)
         IN  IF Strip(arguments.text) = ""
             THEN /\ inv' = [inv EXCEPT ![i] = [pc |-> "returned", args |-> arguments]]
                  /\ toolLog' = Append(toolLog, ToolEvent(i, "invalid", key, ValidationErrorText))
                  /\ UNCHANGED <<cache, request_count>>
             ELSE IF at # 0 /\ _is_cache_valid(tool, cache[at].timestamp, now)
             THEN /\ inv' = [inv EXCEPT ![i] = [pc |-> "returned", args |-> arguments]]
                  /\ toolLog' = Append(toolLog, ToolEvent(i, "hit", key, cache[at].content))
                  /\ UNCHANGED <<cache, request_count>>
             ELSE \E suspends \in Suspends(tool) :
                    IF suspends
                    THEN /\ inv' = [inv EXCEPT ![i] = [pc |-> "suspended", args |-> arguments]]
                         /\ toolLog' = Append(toolLog, ToolEvent(i, "miss", key, NoValue))
                         /\ UNCHANGED <<cache, request_count>>
                    ELSE Compute(i, arguments)
    /\ UNCHANGED <<tool, now, toolRest>>

\* The await returns and execute runs to its return.
ToolResume(i) ==
    /\ inv[i].pc = "suspended"
    /\ Compute(i, inv[i].args)
    /\ UNCHANGED <<tool, now, toolRest>>

\* The computation raises; the except clause of execute returns an error
\* text (ClaudeTool lines 82-86, DuckDuckGoTool lines 312-318).
ToolFault(i) ==
    /\ inv[i].pc = "suspended"
    /\ inv' = [inv EXCEPT ![i].pc = "returned"]
    /\ toolLog' = Append(toolLog, ToolEvent(i, "fault", _get_cache_key(tool, inv[i].args),
                                            ExecutionFailedText))
    /\ UNCHANGED <<tool, now, cache, request_count, toolRest>>

\* The agents constructed so far, the first one included: every "new" event
\* of the log is one more.
AgentsBuilt == 1 + Cardinality({a \in DOMAIN toolLog : toolLog[a].ev = "new"})

\* BaseAgent.__init__ lines 30-34 for a further agent of the execution,
\* constructed when the calls of the agents before it have returned (as the
\* leader agents of successive materials are): the agent makes provider
\* instances of its own, with an empty cache and a zero counter, and the
\* invocations that follow are made on them.  The log does not time the
\* construction.
NewAgent ==
    /\ tool # "none"
    /\ AgentsBuilt < MaxAgents
    /\ \A i \in DOMAIN inv : inv[i].pc # "suspended"
    /\ \E i \in DOMAIN inv : inv[i].pc = "idle"
    /\ toolLog # <<>> /\ toolLog[Len(toolLog)].ev # "new"
    /\ cache' = <<>>
    /\ request_count' = 0
    /\ toolLog' = Append(toolLog, [ToolEvent(0, "new", NoValue, NoValue) EXCEPT !.at = 0])
    /\ UNCHANGED <<tool, now, inv, toolRest>>

\* Wall-clock time passes, half a TTL at a time.  No coroutine is inside
\* the provider's await then: that await lasts 0.5 s (ClaudeTool line 59)
\* or at most the 1 s of the rate limit (DuckDuckGoTool line 108).
Tick ==
    /\ tool # "none"
    /\ \A i \in DOMAIN inv : inv[i].pc # "suspended"
    /\ now < MaxTicks * (cache_ttl(tool) \div 2)
    /\ now' = now + (cache_ttl(tool) \div 2)
    /\ UNCHANGED <<tool, cache, request_count, inv, toolLog, toolRest>>

NextTool ==
    \/ \E i \in 1..MaxInvocations : ToolCall(i)
    \/ \E i \in 1..MaxInvocations : ToolResume(i)
    \/ \E i \in 1..MaxInvocations : ToolFault(i)
    \/ Tick
    \/ NewAgent

SpecTool == InitTool /\ [][NextTool]_vars

(***************************************************************************)
(* The cache of one provider instance over a long run of calls             *)
(* (specification SpecCache): execute is called with one new argument set  *)
(* after the other and, a TTL after the call before, with argument set 1   *)
(* again.  inv holds the latest call only, toolLog stays empty.            *)
(***************************************************************************)
\* Distinct argument sets the instance is called with beyond its ceiling.
MaxKeysAbove == 2
\* Times a whole TTL passes.
MaxExpiries == 1

\* _get_cache_key of the n-th argument set.
NumberedKey(t, n) == IF t = "claude" THEN [prompt |-> n] ELSE [query |-> n]
KeyNumber(t, key) == IF t = "claude" THEN key.prompt ELSE key.query

\* The highest argument-set number among the first i entries of the cache.
RECURSIVE HighestKey(_)
HighestKey(i) ==
    IF i = 0 THEN 0
    ELSE LET rest == HighestKey(i - 1)
             n == KeyNumber(tool, cache[i].key)
         IN  IF n > rest THEN n ELSE rest

\* The argument set a call is made with when it is a new one.
NextKey == 1 + HighestKey(Len(cache))

InitCache ==
    /\ tool \in Tools
    /\ now = 0
    /\ cache = <<>>
    /\ request_count = 0
    /\ inv = <<>>
    /\ toolLog = <<>>
    /\ IdleFn
    /\ IdleWorkflow
    /\ IdleExperts
    /\ IdleAgent

\* The part of execute after a cache miss (ClaudeTool lines 50-80,
\* DuckDuckGoTool lines 287-310) for argument set k at time clock: the
\* computation, the store and the cleaning.
MissAt(k, clock) ==
    LET count == IF tool = "claude" THEN request_count + 1 ELSE request_count
    IN  /\ request_count' = count
        /\ cache' = CacheStore(tool, cache, NumberedKey(tool, k),
                               [of |-> k, format |-> "default", calls |-> count], clock)
        /\ inv' = <<[pc |-> "returned", args |-> k]>>

\* execute with a new argument set: no entry under its key.
CacheMiss ==
    /\ tool # "none"
    /\ NextKey <= cache_ceiling(tool) + MaxKeysAbove
    /\ MissAt(NextKey, now)
    /\ UNCHANGED <<tool, now, toolLog, toolRest>>

\* A whole TTL after the call before it, execute with argument set 1 again:
\* its entry, when it still has one, has expired (ClaudeTool line 46,
\* DuckDuckGoTool line 283), so the call computes and stores.
CacheMissAfterTTL ==
    /\ tool # "none"
    /\ cache # <<>>
    /\ now < MaxExpiries * cache_ttl(tool)
    /\ now' = now + cache_ttl(tool)
    /\ LET at == CacheIndex(cache, NumberedKey(tool, 1))
       IN  at # 0 => ~_is_cache_valid(tool, cache[at].timestamp, now')
    /\ MissAt(1, now')
    /\ UNCHANGED <<tool, toolLog, toolRest>>

NextCache ==
    \/ CacheMiss
    \/ CacheMissAfterTTL

SpecCache == InitCache /\ [][NextCache]_vars

(***************************************************************************)
(* Scoring functions applied to drawn inputs:                              *)
(*   ExpertAgent._extract_expert_score, _sentiment_based_scoring           *)
(*   RawMaterialSourcingWorkflow._calculate_country_score,                 *)
(*     _analyze_country_experts (lines 607-638),                           *)
(*     _generate_comprehensive_recommendations                             *)
(*   LeaderAgent.rank_countries, _calculate_confidence_level               *)
(***************************************************************************)
MaxTokens == 3

\* ---- ExpertAgent._extract_expert_score ----
\* An analysis text, lowercased, is the sequence of the parts of it the
\* function looks at: a match of one of the four score patterns with the
\* number it captures (in tenths), or one of the listed sentiment words.
\* Pattern 1 "score: x", 2 "x/10" or "x out of 10", 3 "rating: x",
\* 4 "x points".
score_patterns == <<1, 2, 3, 4>>
CapturedValues == {20, 75, 120}
SentimentWords == {"excellent", "poor", "unstable", "moderate"}
Match(p, v) == [pattern |-> p, value |-> v, word |-> "none"]
Word(w) == [pattern |-> 0, value |-> 0, word |-> w]
Tokens == {Match(p, v) : p \in Range(score_patterns), v \in CapturedValues}
          \cup {Word(w) : w \in SentimentWords}
AnalysisTexts == SeqsUpTo(Tokens, MaxTokens)

\* re.findall(pattern, text): the captured numbers, in text order.
RECURSIVE findall(_, _)
findall(p, text) ==
    IF text = <<>> THEN <<>>
    ELSE IF Head(text).pattern = p THEN <<Head(text).value>> \o findall(p, Tail(text))
    ELSE findall(p, Tail(text))

\* The listed words found in the text ("word in analysis_lower" is a
\* substring test: "unstable" also contains the positive word "stable").
WordsIn(text) == {text[i].word : i \in DOMAIN text} \ {"none"}
positive_count(text) == Cardinality(WordsIn(text) \cap {"excellent", "unstable"})
negative_count(text) == Cardinality(WordsIn(text) \cap {"poor", "unstable"})
neutral_count(text) == Cardinality(WordsIn(text) \cap {"moderate"})

Min(a, b) == IF a < b THEN a ELSE b
Max(a, b) == IF a > b THEN a ELSE b

\* _sentiment_based_scoring (lines 418-455), in tenths.
_sentiment_based_scoring(text) ==
    LET base_score ==
            IF positive_count(text) > negative_count(text)
            THEN 70 + Min(positive_count(text) * 3, 20)
            ELSE IF negative_count(text) > positive_count(text)
            THEN 40 - Min(negative_count(text) * 3, 20)
            ELSE 55 + neutral_count(text) * 2
    IN  Max(10, Min(100, base_score))

\* Lines 404-412: the loop over the patterns; only matches[0] of a pattern
\* is looked at.
RECURSIVE TryPatterns(_, _)
TryPatterns(text, patterns) ==
    IF patterns = <<>> THEN _sentiment_based_scoring(text)
    ELSE LET matches == findall(Head(patterns), text)
         IN  IF matches # <<>> /\ 10 <= matches[1] /\ matches[1] <= 100
             THEN matches[1]
             ELSE TryPatterns(text, Tail(patterns))

_extract_expert_score(text) == TryPatterns(text, score_patterns)

\* ---- one material's countries with the results of their expert tasks ----
\* What the three expert tasks of a country returned.
DimensionResults == {ExpertTaskResult("ok", 60), ExpertTaskResult("ok", 70),
                     ExpertTaskResult("ok", 80), ExpertTaskResult("failed", 0)}
ExpertResults == [FieldSet -> DimensionResults]
CountryInputs ==
    {<<[key |-> "A", value |-> a]>> : a \in ExpertResults}
    \cup {<<[key |-> "A", value |-> a], [key |-> "B", value |-> b]>> :
             a \in ExpertResults, b \in ExpertResults}

\* config["priority"], and whether config["scoring_weights"] holds numbers:
\* without a "scoring_weights" key in the caller's config the weights are
\* the profile of the priority (lines 55-58, 103-126); a caller's own
\* "scoring_weights" replaces them as given.
Priorities == {"profitability", "stability", "eco-friendly", "balanced"}
WeightConfigs == {"profile", "strings"}

\* _analyze_country_experts lines 607-638: the pair's result; a weight that
\* is not a number makes score * weight of line 669 raise TypeError, which
\* the except clause of line 628 turns into the failed result.
AnalyzePair(weights, expert_results, p, material, country) ==
    IF weights = "profile"
    THEN PairResult(expert_results, p, material, country)
    ELSE [status |-> "failed", country |-> country, raw_material |-> material,
          expert_results |-> EmptyMap, overall_score |-> 0, expert_scores |-> EmptyMap]

\* Lines 731-742: detailed_analysis[material], country by country.
RECURSIVE AnalyzeCountries(_, _, _, _)
AnalyzeCountries(weights, countries, p, material) ==
    IF countries = <<>> THEN <<>>
    ELSE <<[key |-> Head(countries).key,
            value |-> AnalyzePair(weights, Head(countries).value, p, material,
                                  Head(countries).key)]>>
         \o AnalyzeCountries(weights, Tail(countries), p, material)

\* ---- LeaderAgent ----
\* leader_agent.py lines 25-29: the leader's own weights, in tenths.
LeaderWeights == [cost_score |-> 4, stability_score |-> 3, eco_friendly_score |-> 3]

\* rank_countries lines 336-343: composite_score in hundredths.  The cost,
\* stability and eco-friendly scores are the profitability, stability and
\* eco-friendly scores of the country.
LeaderComposite(expert_results) ==
    LET w == LeaderWeights
    IN  expert_results["profitability"].expert_score * w.cost_score
        + expert_results["stability"].expert_score * w.stability_score
        + expert_results["eco-friendly"].expert_score * w.eco_friendly_score

RECURSIVE LeaderScored(_)
LeaderScored(countries) ==
    IF countries = <<>> THEN <<>>
    ELSE <<[country |-> Head(countries).key,
            overall_score |-> LeaderComposite(Head(countries).value)]>>
         \o LeaderScored(Tail(countries))

\* rank_countries line 351: all_rankings, sorted descending (stable); an
\* entry's overall_score field holds its composite_score.
rank_countries(countries) == SortDesc(LeaderScored(countries))

\* _calculate_confidence_level (lines 424-439); scores in hundredths.
_calculate_confidence_level_Strict(best_score, all_rankings) ==
    IF Len(all_rankings) < 2 THEN "MODERATE"
    ELSE LET score_gap == best_score - all_rankings[2]
         IN  IF score_gap > 100 THEN "HIGH"
             ELSE IF score_gap > 50 THEN "MODERATE"
             ELSE "LOW"

_calculate_confidence_level(best_score, all_rankings) ==
    IF Len(all_rankings) < 2 THEN "MODERATE"
    ELSE LET score_gap == best_score - all_rankings[2]
         IN  IF score_gap >= 100 THEN "HIGH"
             ELSE IF score_gap >= 50 THEN "MODERATE"
             ELSE "LOW"

RECURSIVE CompositeScores(_)
CompositeScores(rankings) ==
    IF rankings = <<>> THEN <<>>
    ELSE <<Head(rankings).overall_score>> \o CompositeScores(Tail(rankings))

\* generate_final_recommendation lines 373-384 and 420: the confidence_level
\* of the leader's final recommendation.
FinalConfidence(all_rankings) ==
    IF all_rankings = <<>> THEN "LOW"
    ELSE _calculate_confidence_level(all_rankings[1], all_rankings)

\* all_rankings as rank_countries leaves it: composite scores in hundredths,
\* in non-increasing order.
CompositeValues == {600, 649, 650, 699, 700, 710}
IsSortedDesc(s) == \A i \in 1..(Len(s) - 1) : s[i] >= s[i + 1]
RankingInputs == {s \in SeqsUpTo(CompositeValues, 3) : IsSortedDesc(s)}

\* ---- RawMaterialSourcingWorkflow.__init__ ----
\* The config dicts a workflow is constructed with, as functions from the
\* keys present: "priority" and "scoring_weights" may each be absent.  A
\* caller's scoring_weights are in tenths.
CallerWeights == {[profitability |-> 5, stability |-> 3, eco_friendly |-> 2],
                  [profitability |-> 5, stability |-> 5, eco_friendly |-> 5]}
Configs ==
    {EmptyMap}
    \cup {[k \in {"priority"} |-> p] : p \in Priorities}
    \cup {[k \in {"scoring_weights"} |-> w] : w \in CallerWeights}
    \cup {[k \in {"priority", "scoring_weights"} |->
              IF k = "priority" THEN c[1] ELSE c[2]] : c \in Priorities \X CallerWeights}

\* dict.get(key, default)
Get(d, key, default) == IF key \in DOMAIN d THEN d[key] ELSE default

\* {**a, **b}
Merge(a, b) == [k \in DOMAIN a \cup DOMAIN b |-> IF k \in DOMAIN b THEN b[k] ELSE a[k]]

\* _get_default_config (lines 98-131), the keys the scoring reads.
_get_default_config(config) ==
    [k \in {"scoring_weights"} |-> ProfileWeights(Get(config, "priority", "balanced"))]

\* __init__ lines 49-58: self.priority, self.config and self.scoring_weights.
WorkflowInit(config) ==
    LET merged == Merge(_get_default_config(config), config)
    IN  [priority |-> Get(config, "priority", "balanced"),
         config |-> merged,
         scoring_weights |-> merged["scoring_weights"]]

\* ---- BaseAgent._extract_text_from_result ----
MaxResultLen == 2

\* Provider results: a str, a number, a list, or a dict (a function from the
\* keys present to their values).
StrVal(s) == [type |-> "str", v |-> s]
NumVal == [type |-> "int", v |-> "7"]
ListVal(items) == [type |-> "list", items |-> items]
DictVal(fields) == [type |-> "dict", fields |-> fields]

\* str(x) and json.dumps(x, indent=2) of a value that is not a str: the
\* text that renders x.  str(x) of a str is x itself.
str(x) == IF x.type = "str" THEN x ELSE [type |-> "str", of |-> x]
json_dumps(x) == [type |-> "str", json |-> x]
NoResultText == StrVal("No result returned")

ResultKeys == {"text", "content", "message", "result", "type"}
Scalars == {StrVal("a"), StrVal("b"), NumVal}
DictResults == UNION {{DictVal(f) : f \in [ks -> Scalars]} : ks \in SUBSET ResultKeys}
\* Lists of up to MaxResultLen items; the items after the first are strs.
ListResults ==
    {ListVal(<<>>)}
    \cup {ListVal(<<x>> \o rest) :
             x \in DictResults \cup Scalars,
             rest \in SeqsUpTo({StrVal("z")}, MaxResultLen - 1)}
ProviderResults == Scalars \cup DictResults \cup ListResults

_extract_text_from_result_ContentFirst(result) ==
    CASE result.type = "str" -> result
      [] result.type = "list" ->
           IF Len(result.items) = 0 THEN NoResultText
           ELSE LET first_item == result.items[1]
                IN  IF first_item.type = "dict"
                    THEN IF "content" \in DOMAIN first_item.fields
                         THEN first_item.fields["content"]
                         ELSE IF "text" \in DOMAIN first_item.fields
                         THEN first_item.fields["text"]
                         ELSE json_dumps(first_item)
                    ELSE str(first_item)
      [] result.type = "dict" ->
           IF "content" \in DOMAIN result.fields THEN result.fields["content"]
           ELSE IF "text" \in DOMAIN result.fields THEN result.fields["text"]
           ELSE IF "message" \in DOMAIN result.fields THEN result.fields["message"]
           ELSE IF "result" \in DOMAIN result.fields THEN str(result.fields["result"])
           ELSE json_dumps(result)
      [] OTHER -> str(result)

\* _extract_text_from_result (lines 50-101).  No step of it raises on
\* these results, so the except clause of line 99 is not entered.
_extract_text_from_result(result) ==
    CASE result.type = "str" -> result
      [] result.type = "list" ->
           IF Len(result.items) = 0 THEN NoResultText
           ELSE LET first_item == result.items[1]
                IN  IF first_item.type = "dict"
                    THEN IF "text" \in DOMAIN first_item.fields
                         THEN first_item.fields["text"]
                         ELSE IF "content" \in DOMAIN first_item.fields
                         THEN first_item.fields["content"]
                         ELSE json_dumps(first_item)
                    ELSE str(first_item)
      [] result.type = "dict" ->
           IF "text" \in DOMAIN result.fields THEN result.fields["text"]
           ELSE IF "content" \in DOMAIN result.fields THEN result.fields["content"]
           ELSE IF "message" \in DOMAIN result.fields THEN result.fields["message"]
           ELSE IF "result" \in DOMAIN result.fields THEN str(result.fields["result"])
           ELSE json_dumps(result)
      [] OTHER -> str(result)

\* ---- RawMaterialSourcingWorkflow._extract_text_from_result ----
\* Lines 302-313, over the same provider results: the "text" of a non-empty
\* list's first item or of a dict, and str(result) for everything else.
Workflow_extract_text_from_result(result) ==
    IF /\ result.type = "list" /\ Len(result.items) > 0
       /\ result.items[1].type = "dict"
       /\ "text" \in DOMAIN result.items[1].fields
    THEN result.items[1].fields["text"]
    ELSE IF result.type = "dict" /\ "text" \in DOMAIN result.fields
    THEN result.fields["text"]
    ELSE str(result)

ScoringInputs ==
    {[kind |-> "config", config |-> c] : c \in Configs}
    \cup {[kind |-> "result", result |-> r] : r \in ProviderResults}
    \cup {[kind |-> "text", text |-> t] : t \in AnalysisTexts}
    \cup {[kind |-> "material", priority |-> p, weights |-> w, countries |-> c] :
             p \in Priorities, w \in WeightConfigs, c \in CountryInputs}
    \cup {[kind |-> "rankings", all_rankings |-> r] : r \in RankingInputs}

InitScoring ==
    /\ fn = "none"
    /\ arg \in ScoringInputs
    /\ out = NoValue
    /\ IdleTool
    /\ IdleWorkflow
    /\ IdleExperts
    /\ IdleAgent

fnRest == <<toolVars, wfVars, exVars, agVars>>

ExtractExpertScore ==
    /\ fn = "none" /\ arg.kind = "text"
    /\ fn' = "_extract_expert_score"
    /\ out' = _extract_expert_score(arg.text)
    /\ UNCHANGED <<arg, fnRest>>

CalculateCountryScore ==
    /\ fn = "none" /\ arg.kind = "material" /\ arg.weights = "profile"
    /\ fn' = "_calculate_country_score"
    /\ out' = _calculate_country_score(arg.countries[1].value, arg.priority)
    /\ UNCHANGED <<arg, fnRest>>

\* Phase 3 for one material followed by Phase 4.
AnalyzeMaterial ==
    /\ fn = "none" /\ arg.kind = "material"
    /\ fn' = "_generate_comprehensive_recommendations"
    /\ LET countries_analysis ==
               AnalyzeCountries(arg.weights, arg.countries, arg.priority, "Cocoa Beans")
           detailed == <<[key |-> "Cocoa Beans", value |-> countries_analysis]>>
       IN  out' = [detailed_analysis |-> detailed,
                   material_recommendations |-> MaterialRecommendations(detailed)]
    /\ UNCHANGED <<arg, fnRest>>

\* The leader's ranking and confidence next to the workflow's ranking of
\* the same countries.
RankAndConfidence ==
    /\ fn = "none" /\ arg.kind = "material" /\ arg.weights = "profile"
    /\ fn' = "rank_countries"
    /\ LET all_rankings == rank_countries(arg.countries)
           countries_analysis ==
               AnalyzeCountries(arg.weights, arg.countries, arg.priority, "Cocoa Beans")
       IN  out' = [all_rankings |-> all_rankings,
                   confidence_level |-> FinalConfidence(CompositeScores(all_rankings)),
                   country_rankings |-> SortDesc(Rankings(countries_analysis))]
    /\ UNCHANGED <<arg, fnRest>>

\* RawMaterialSourcingWorkflow(config)
Construct ==
    /\ fn = "none" /\ arg.kind = "config"
    /\ fn' = "__init__"
    /\ out' = WorkflowInit(arg.config)
    /\ UNCHANGED <<arg, fnRest>>

ExtractTextFromResult ==
    /\ fn = "none" /\ arg.kind = "result"
    /\ fn' = "_extract_text_from_result"
    /\ out' = _extract_text_from_result(arg.result)
    /\ UNCHANGED <<arg, fnRest>>

WorkflowExtractTextFromResult ==
    /\ fn = "none" /\ arg.kind = "result"
    /\ fn' = "RawMaterialSourcingWorkflow._extract_text_from_result"
    /\ out' = Workflow_extract_text_from_result(arg.result)
    /\ UNCHANGED <<arg, fnRest>>

CalculateConfidenceLevel ==
    /\ fn = "none" /\ arg.kind = "rankings"
    /\ fn' = "_calculate_confidence_level"
    /\ out' = _calculate_confidence_level(
                 IF arg.all_rankings = <<>> THEN 0 ELSE arg.all_rankings[1],
                 arg.all_rankings)
    /\ UNCHANGED <<arg, fnRest>>

NextScoring ==
    \/ ExtractExpertScore
    \/ CalculateCountryScore
    \/ AnalyzeMaterial
    \/ RankAndConfidence
    \/ CalculateConfidenceLevel
    \/ Construct
    \/ ExtractTextFromResult
    \/ WorkflowExtractTextFromResult

SpecScoring == InitScoring /\ [][NextScoring]_vars

(***************************************************************************)
(* Claims about execute_comprehensive_workflow (checked under Spec)        *)
(***************************************************************************)

\* C1: execute_comprehensive_workflow never raises to its caller: from every
\* position short of its return it can take a step, no exception leaves it,
\* and what it returns has status COMPLETED or FAILED, a FAILED result
\* carrying an error message and a partial_results field.
C1_NeverRaisesAlwaysResult ==
    /\ pc # "raised"
    /\ pc # "returned" => ENABLED Next
    /\ pc = "returned" =>
         /\ ret.status \in {"COMPLETED", "FAILED"}
         /\ ret.status = "FAILED" =>
              /\ {"error", "partial_results"} \subseteq DOMAIN ret
              /\ ret.error \in {"WorkflowExecutionError", "TypeError", "Exception"}
              /\ ret.partial_results = results

\* C1 witness: a fault of Phase 2 was turned into a returned FAILED result.
C1_Witness ==
    /\ pc = "returned"
    /\ ret.status = "FAILED"
    /\ ret.error = "TypeError"
    /\ "identified_raw_materials" \in DOMAIN ret.partial_results

PhaseSucc(p) ==
    CASE p = "INIT" -> "MATERIAL_ID"
      [] p = "MATERIAL_ID" -> "COUNTRY_DISCOVERY"
      [] p = "COUNTRY_DISCOVERY" -> "EXPERT_EVAL"
      [] p = "EXPERT_EVAL" -> "AGGREGATION"
      [] p = "AGGREGATION" -> "COMPLETED"
      [] OTHER -> p

\* C2: in every step of an execution the phase stays, advances to the next
\* phase of the order INIT, MATERIAL_ID, COUNTRY_DISCOVERY, EXPERT_EVAL,
\* AGGREGATION, COMPLETED, or becomes FAILED; and once the status is
\* COMPLETED or FAILED neither the status nor the phase changes again.
C2_PhasesOnlyForward ==
    [][ /\ phase' \in {phase, PhaseSucc(phase), "FAILED"}
        /\ status \in {"COMPLETED", "FAILED"} => (status' = status /\ phase' = phase)
        /\ (status' # status) => status' \in {"COMPLETED", "FAILED"} ]_vars

\* C2 witness: Phase 2 was entered after Phase 1 and the execution then
\* ended FAILED from there.
C2_Witness ==
    /\ phase = "FAILED"
    /\ status = "FAILED"
    /\ leaderCtorCalls = 1
    /\ llmCalls = 1

\* The response holds no valid material: no JSON list with an item that is a
\* non-blank string.
NoValidMaterial(result) ==
    LET text == result.text
    IN  ~ ( /\ text.braces
            /\ text.json = "list"
            /\ \E i \in DOMAIN text.items :
                 text.items[i].isStr /\ text.items[i].v # "   " )

\* C3: when the Phase-1 model call has faulted or its response holds no valid
\* material, the execution is on its way to FAILED or has returned FAILED,
\* and no leader agent and no expert agent has been constructed or stored.
C3_NoMaterialIsFatal ==
    (response # NoValue /\ NoValidMaterial(response)) =>
        /\ pc \in {"except", "returned"}
        /\ pc = "except" => exc = "WorkflowExecutionError"
        /\ pc = "returned" => ret.status = "FAILED"
        /\ leaderCtorCalls = 0
        /\ agents = {}
        /\ DOMAIN results = {}

\* C3 witness: the response was a JSON list of blank and non-string items
\* only, and the execution returned FAILED.
C3_Witness ==
    /\ pc = "returned"
    /\ ret.status = "FAILED"
    /\ response # NoValue
    /\ response.text.json = "list"
    /\ Len(response.text.items) = 2
    /\ NoValidMaterial(response)

\* C4 (as claimed): a fault raised while country discovery processes one
\* material never aborts the workflow: when the execution has returned after
\* Phase 1 identified materials, every identified material has a structured
\* entry in material_analyses.
C4_DiscoveryFaultNeverAborts ==
    (pc = "returned" /\ "identified_raw_materials" \in DOMAIN results) =>
        /\ "material_analyses" \in DOMAIN results
        /\ \A m \in Range(results["identified_raw_materials"]) :
             m \in DOMAIN results["material_analyses"]

(***************************************************************************)
(* Claims about Phase 3 and Phase 4 (checked under SpecExperts)            *)
(***************************************************************************)
Logged(m, c, f, kinds) ==
    \E e \in outcomeLog :
        e.material = m /\ e.country = c /\ e.field = f /\ e.kind \in kinds

\* C5: in every stored result of a (material, country) pair, each dimension
\* whose expert failed, raised or timed out has the score 5.0, the pair has
\* status success, scores for all three dimensions, and a composite that is
\* the weighted sum of the three scores with the weights of the priority.
C5_FailedDimensionNeutral ==
    \A i \in DOMAIN detailed_analysis :
      \A j \in DOMAIN detailed_analysis[i].value :
        LET m == detailed_analysis[i].key
            c == detailed_analysis[i].value[j].key
            r == detailed_analysis[i].value[j].value
            w == ProfileWeights(priority)
        IN  /\ r.status = "success"
            /\ DOMAIN r.expert_scores = FieldSet
            /\ \A f \in FieldSet :
                 Logged(m, c, f, {"failed", "timeout", "raises"}) =>
                    /\ r.expert_scores[f] = 50
                    /\ r.expert_results[f].expert_score = 50
            /\ r.overall_score =
                   r.expert_scores["profitability"] * w.profitability
                 + r.expert_scores["stability"] * w.stability
                 + r.expert_scores["eco-friendly"] * w.eco_friendly

\* C5 witness: a pair whose profitability expert reported 8.0, whose
\* stability expert timed out and whose eco-friendly expert failed, stored
\* with the composite 8.0*0.6 + 5.0*0.2 + 5.0*0.2 = 6.8.
C5_Witness ==
    /\ priority = "profitability"
    /\ DictHas(detailed_analysis, "Cocoa Beans")
    /\ DictHas(DictGet(detailed_analysis, "Cocoa Beans"), "Ghana")
    /\ DictGet(DictGet(detailed_analysis, "Cocoa Beans"), "Ghana").overall_score = 680
    /\ Logged("Cocoa Beans", "Ghana", "stability", {"timeout"})
    /\ Logged("Cocoa Beans", "Ghana", "eco-friendly", {"failed"})

Ranked(recs, m, c, score) ==
    /\ DictHas(recs, m)
    /\ \E k \in DOMAIN DictGet(recs, m).country_rankings :
         /\ DictGet(recs, m).country_rankings[k].country = c
         /\ DictGet(recs, m).country_rankings[k].overall_score = score

\* C6: the step in which one expert task times out leaves the state and the
\* result of every other task of the pool as they were; every expert that
\* reported a score has that score in the pair's stored result; and in a
\* returned result every country of every material whose discovery
\* succeeded is in that material's ranking with its composite score.
C6_TimeoutSparesSiblings ==
    /\ [][ \A f \in FieldSet :
             ( /\ pc = "gather" /\ pc' = "gather"
               /\ task[f] = "running"
               /\ outcome'[f] = "timeout" )
             => \A g \in FieldSet \ {f} :
                   /\ task'[g] = task[g]
                   /\ outcome'[g] = outcome[g]
                   /\ taskResult'[g] = taskResult[g] ]_vars
    /\ [] ( \A e \in outcomeLog :
              ( /\ e.kind = "ok"
                /\ DictHas(detailed_analysis, e.material)
                /\ DictHas(DictGet(detailed_analysis, e.material), e.country) )
              => DictGet(DictGet(detailed_analysis, e.material), e.country)
                     .expert_scores[e.field] = e.score )
    /\ [] ( pc = "returned" =>
              \A i \in DOMAIN material_analyses :
                material_analyses[i].value.status = "success" =>
                  \A j \in DOMAIN material_analyses[i].value.countries :
                    LET m == material_analyses[i].key
                        c == material_analyses[i].value.countries[j]
                    IN  /\ DictHas(ret.detailed_analysis, m)
                        /\ DictHas(DictGet(ret.detailed_analysis, m), c)
                        /\ Ranked(ret.final_recommendations.material_recommendations, m, c,
                                  DictGet(DictGet(ret.detailed_analysis, m), c).overall_score) )

\* C6 witness: all three experts of (Cocoa Beans, Ghana) timed out, none of
\* (Cocoa Beans, Ecuador) did, and the returned ranking holds Ecuador with
\* 8.0 before Ghana with 5.0.
C6_Witness ==
    /\ pc = "returned"
    /\ \A f \in FieldSet : Logged("Cocoa Beans", "Ghana", f, {"timeout"})
    /\ \A f \in FieldSet : Logged("Cocoa Beans", "Ecuador", f, {"ok"})
    /\ LET rk == DictGet(ret.final_recommendations.material_recommendations,
                         "Cocoa Beans").country_rankings
       IN  /\ Len(rk) = 2
           /\ rk[1].country = "Ecuador" /\ rk[1].overall_score = 800
           /\ rk[2].country = "Ghana" /\ rk[2].overall_score = 500

(***************************************************************************)
(* Claims about BaseAgent (checked under SpecAgent)                        *)
(***************************************************************************)

\* C7: run never raises: an exception raised by pre_execute, execute_task
\* or post_execute always reaches run's except clause, whose step returns a
\* result with status "failed" and an error field, sets the agent's status
\* to failed and increments error_count by one.
C7_RunNeverRaises ==
    /\ [] (agPc # "raised")
    /\ [] (agPc = "except" => (raisedIn # "none" /\ ENABLED RunHandlesException))
    /\ [][ agPc = "except" =>
             /\ agPc' = "returned"
             /\ agStatus' = "failed"
             /\ error_count' = error_count + 1
             /\ agRet'.status = "failed"
             /\ "error" \in DOMAIN agRet'
             /\ agRet'.error = agExc ]_<<agPc, agStatus, error_count, agRet>>
    /\ [] ((agPc = "returned" /\ raisedIn # "none") =>
             (agStatus = "failed" /\ agRet.status = "failed" /\ error_count >= 1))

\* C7 witness: post_execute raised after a use_tool invocation had already
\* counted an error; run returned the failed result with error_count 2.
C7_Witness ==
    /\ agPc = "returned"
    /\ raisedIn = "post_execute"
    /\ agRet.status = "failed"
    /\ agStatus = "failed"
    /\ error_count = 2

\* C8: one use_tool invocation calls the provider's execute at most
\* max_retries + 1 times and retries at most max_retries times.
C8_BoundedAttempts ==
    /\ executeCalls <= max_retries + 1
    /\ retry_count <= max_retries
    /\ Len(sleeps) <= max_retries

\* C8 witness: an invocation that used all max_retries + 1 attempts.
C8_Witness ==
    /\ utPc = "done"
    /\ executeCalls = max_retries + 1
    /\ retry_count = max_retries

\* C9: when every attempt of a finished use_tool invocation faulted, it
\* returned the degraded text and error_count is exactly one more than
\* when the invocation began.
C9_DegradedCountsOnce ==
    (utPc = "done" /\ executeCalls > 0 /\ faults = executeCalls) =>
        /\ utRet = "degraded"
        /\ error_count = errBefore + 1
        /\ faults = max_retries + 1

\* C9 witness: the second invocation of an agent ended degraded after four
\* faulted attempts, the first one having ended degraded too.
C9_Witness ==
    /\ utPc = "done"
    /\ utRet = "degraded"
    /\ faults = 4
    /\ errBefore = 1
    /\ error_count = 2

\* C10: when the provider faulted on the first N attempts of an invocation
\* and then succeeded, N <= max_retries, the invocation returned the
\* success text, execution_history gained N error entries followed by one
\* success entry, and the waits were 2^0, ..., 2^(N-1) in that order.
C10_FaultsThenSuccess ==
    (utPc = "done" /\ executeCalls > 0 /\ faults < executeCalls) =>
        /\ utRet = "text"
        /\ faults <= max_retries
        /\ executeCalls = faults + 1
        /\ error_count = errBefore
        /\ Len(execution_history) = histBefore + faults + 1
        /\ \A i \in 1..faults : execution_history[histBefore + i] = "error"
        /\ execution_history[histBefore + faults + 1] = "success"
        /\ sleeps = [i \in 1..faults |-> 2 ^ (i - 1)]

\* C10 witness: three faults, then success, after waits of 1, 2 and 4.
C10_Witness ==
    /\ utPc = "done"
    /\ utRet = "text"
    /\ faults = 3
    /\ sleeps = <<1, 2, 4>>

(***************************************************************************)
(* Claims about the capability providers (checked under SpecTool)          *)
(***************************************************************************)
\* Position in toolLog of the first event of invocation i (its call), 0 when
\* it has not called yet.
CallAt(i) ==
    IF \E a \in DOMAIN toolLog : toolLog[a].inv = i
    THEN CHOOSE a \in DOMAIN toolLog :
           /\ toolLog[a].inv = i
           /\ \A b \in DOMAIN toolLog : toolLog[b].inv = i => a <= b
    ELSE 0

\* Invocation y follows invocation x with identical arguments: x computed
\* and stored at position a, y called afterwards within the TTL of that
\* store, and nothing else was stored under the key in between.
Follows(a, y) ==
    LET x == toolLog[a].inv
        b == CallAt(y)
    IN  /\ toolLog[a].ev = "computed"
        /\ y # x
        /\ b > a
        /\ inv[y].args = inv[x].args
        /\ (toolLog[b].at - toolLog[a].at) < cache_ttl(tool)
        /\ \A c \in (a + 1)..(b - 1) :
             ~(toolLog[c].ev = "computed" /\ toolLog[c].key = toolLog[a].key)

\* The events at positions a and b happened on the provider instance of one
\* agent: no agent was constructed between them.
SameInstance(a, b) == \A c \in (a + 1)..(b - 1) : toolLog[c].ev # "new"

\* Invocation y follows invocation x sequentially on one provider instance.
Sequential(a, y) == Follows(a, y) /\ SameInstance(a, CallAt(y))

Computations(i) == {a \in DOMAIN toolLog : toolLog[a].inv = i /\ toolLog[a].ev = "computed"}

\* C11: on one provider instance, when an invocation follows another one
\* sequentially with identical arguments and within the cache TTL of the
\* first one's store, the two cause exactly one provider computation: the
\* second one is a cache hit that returns the text the first one stored.
C11_SecondIsCacheHit ==
    \A a \in DOMAIN toolLog : \A y \in DOMAIN inv :
        Sequential(a, y) =>
            /\ toolLog[CallAt(y)].ev = "hit"
            /\ toolLog[CallAt(y)].text = toolLog[a].text
            /\ Cardinality(Computations(toolLog[a].inv) \cup Computations(y)) = 1

\* Reached: a second identical invocation, made later on the clock but within
\* the TTL, returned the cached text.
C11_Witness ==
    \E a \in DOMAIN toolLog : \E y \in DOMAIN inv :
        /\ Sequential(a, y)
        /\ toolLog[CallAt(y)].at > toolLog[a].at
        /\ toolLog[CallAt(y)].ev = "hit"
        /\ request_count = IF tool = "claude" THEN 1 ELSE 0

\* Invocation y overlaps invocation x on the same cache key: y called while x
\* was suspended inside the provider call.
Overlap(x, y) ==
    /\ x # y
    /\ CallAt(x) # 0 /\ CallAt(y) > CallAt(x)
    /\ toolLog[CallAt(x)].ev = "miss"
    /\ toolLog[CallAt(y)].key = toolLog[CallAt(x)].key
    /\ \A c \in (CallAt(x) + 1)..(CallAt(y) - 1) : toolLog[c].inv # x

\* C12: at most one invocation per identical cache key is in flight at a
\* time: two invocations suspended in the provider never have the same key,
\* and of two overlapping invocations of one key at most one computes.
C12_OneInFlightPerKey ==
    /\ \A x, y \in DOMAIN inv :
         (x # y /\ inv[x].pc = "suspended" /\ inv[y].pc = "suspended") =>
             _get_cache_key(tool, inv[x].args) # _get_cache_key(tool, inv[y].args)
    /\ \A x, y \in DOMAIN inv :
         Overlap(x, y) => ~(Computations(x) # {} /\ Computations(y) # {})

(***************************************************************************)
(* Claims about Phase 1 (checked under Spec)                               *)
(***************************************************************************)
\* The materials parsed from the Phase-1 response.
Parsed == _parse_simple_json_response(WfExtractText(response))

\* C13: whenever material identification succeeds, the list handed to Phase 2
\* has exactly 3 materials: more than 3 parsed materials are cut to the first
\* 3, and 1 or 2 parsed materials are kept and followed by entries of the
\* fallback table of the industry context up to exactly 3.
C13_ExactlyThreeMaterials ==
    "identified_raw_materials" \in DOMAIN results =>
        LET m == results["identified_raw_materials"]
        IN  /\ Len(m) = 3
            /\ Len(Parsed) >= 1
            /\ Len(Parsed) >= 3 => m = SubSeq(Parsed, 1, 3)
            /\ Len(Parsed) < 3 =>
                 /\ SubSeq(m, 1, Len(Parsed)) = Parsed
                 /\ SubSeq(m, Len(Parsed) + 1, 3) =
                        SubSeq(FirstMatch(industry_context, 1), 1, 3 - Len(Parsed))

\* Reached: two materials were parsed and the list handed to Phase 2 was
\* extended from the fallback table.
C13_Witness ==
    /\ "identified_raw_materials" \in DOMAIN results
    /\ Len(Parsed) = 2
    /\ Len(results["identified_raw_materials"]) = 3
    /\ results["identified_raw_materials"][3] \in Range(FirstMatch(industry_context, 1))
    /\ leaderCtorCalls = 1

\* C14 (as claimed): when the Phase-1 response cannot be parsed into
\* materials, the materials of the keyword fallback table are supplied and
\* the workflow proceeds to Phase 2.
C14_ParseFailureFallsBack ==
    (response # NoValue /\ Parsed = <<>>) =>
        /\ "identified_raw_materials" \in DOMAIN results
        /\ results["identified_raw_materials"] = _get_emergency_materials(industry_context, 3)
        /\ phase # "MATERIAL_ID"

(***************************************************************************)
(* Claims about scoring, ranking and confidence                            *)
(***************************************************************************)
\* The weight of a dimension under a declared priority, in tenths: 0.6 for
\* the priority's own dimension and 0.2 for the others; balanced is
\* 0.4 / 0.3 / 0.3.
DeclaredWeight(p, f) ==
    IF p = "balanced" THEN (IF f = "profitability" THEN 4 ELSE 3)
    ELSE IF p = f THEN 6 ELSE 2

Abs(x) == IF x < 0 THEN -x ELSE x

DimensionScores(expert_results) ==
    <<expert_results["profitability"].expert_score,
      expert_results["stability"].expert_score,
      expert_results["eco-friendly"].expert_score>>

DiscoveryIndex(material, country) ==
    LET countries == DictGet(results["material_analyses"], material).countries
    IN  CHOOSE i \in DOMAIN countries : countries[i] = country

\* C16 (checked under SpecExperts): each material's country_rankings is in
\* non-increasing order of composite score, and countries with equal
\* composite scores keep their discovery order.
C16_RankingDescendingStable ==
    "final_recommendations" \in DOMAIN results =>
        LET recs == results["final_recommendations"].material_recommendations
        IN  \A k \in DOMAIN recs :
              LET r == recs[k].value.country_rankings
              IN  \A i, j \in DOMAIN r :
                    i < j =>
                      /\ r[i].overall_score >= r[j].overall_score
                      /\ r[i].overall_score = r[j].overall_score =>
                           DiscoveryIndex(recs[k].key, r[i].country)
                             < DiscoveryIndex(recs[k].key, r[j].country)

\* Reached: a material whose two countries have equal composite scores and
\* are ranked in discovery order, after a run that also had to move a later
\* country in front of an earlier one is covered by the other states.
C16_Witness ==
    /\ "final_recommendations" \in DOMAIN results
    /\ \E k \in DOMAIN results["final_recommendations"].material_recommendations :
         LET rec == results["final_recommendations"].material_recommendations[k]
             r == rec.value.country_rankings
         IN  /\ Len(r) = 2
             /\ r[1].overall_score = r[2].overall_score
             /\ r[1].expert_scores # r[2].expert_scores
             /\ DiscoveryIndex(rec.key, r[1].country) = 1

\* The level the gap between the first two composite scores stands for.
GapLevel(gap) == IF gap >= 100 THEN "HIGH" ELSE IF gap >= 50 THEN "MODERATE" ELSE "LOW"

C18_ConfidenceFromFinalRanking ==
    fn = "rank_countries" =>
        LET r == out.country_rankings
        IN  /\ out.confidence_level =
                  IF Len(r) < 2 THEN "MODERATE"
                  ELSE GapLevel(r[1].overall_score - r[2].overall_score)
            /\ ( /\ arg.priority = "profitability"
                 /\ Len(arg.countries) = 2
                 /\ DimensionScores(arg.countries[1].value) = <<80, 60, 70>>
                 /\ DimensionScores(arg.countries[2].value) = <<60, 80, 80>> ) =>
                    /\ r[1].country = "A" /\ r[2].country = "B"
                    /\ out.confidence_level = "MODERATE"

\* C19 (as claimed, checked under SpecScoring): every score of a result,
\* each dimension score, each overall score and each recommended_score,
\* lies in [1.0, 10.0], on success paths and on failure paths.
C19_ScoresInRange ==
    fn = "_generate_comprehensive_recommendations" =>
        /\ \A m \in DOMAIN out.detailed_analysis :
             \A c \in DOMAIN out.detailed_analysis[m].value :
               LET pair == out.detailed_analysis[m].value[c].value
               IN  /\ 100 <= pair.overall_score /\ pair.overall_score <= 1000
                   /\ \A f \in DOMAIN pair.expert_scores :
                        10 <= pair.expert_scores[f] /\ pair.expert_scores[f] <= 100
        /\ \A k \in DOMAIN out.material_recommendations :
             LET rec == out.material_recommendations[k].value
             IN  /\ 100 <= rec.recommended_score /\ rec.recommended_score <= 1000
                 /\ \A i \in DOMAIN rec.country_rankings :
                      /\ 100 <= rec.country_rankings[i].overall_score
                      /\ rec.country_rankings[i].overall_score <= 1000

\* C20 (as claimed, checked under SpecScoring): when the analysis text
\* contains an explicit "score: x" with x in [1, 10], and no other
\* "score: y" with another y in [1, 10], the extracted expert score is x,
\* whatever else the text contains.
C20_ExplicitScoreWins ==
    fn = "_extract_expert_score" =>
        \A i \in DOMAIN arg.text :
            ( /\ arg.text[i].pattern = 1
              /\ 10 <= arg.text[i].value /\ arg.text[i].value <= 100
              /\ \A j \in DOMAIN arg.text :
                   (arg.text[j].pattern = 1 /\ 10 <= arg.text[j].value
                      /\ arg.text[j].value <= 100)
                   => arg.text[j].value = arg.text[i].value )
            => out = arg.text[i].value

\* Sum of a scoring-weight map, in tenths.
WeightSum(w) == w.profitability + w.stability + w.eco_friendly

\* C21: the weights of each of the four priority profiles sum to 1.0, and
\* the weight map a constructed workflow scores with sums to 1.0 whatever
\* config it was constructed with.
C21_WeightsSumToOne ==
    /\ \A p \in Priorities : WeightSum(ProfileWeights(p)) = 10
    /\ fn = "__init__" => WeightSum(out.scoring_weights) = 10

\* The value of the first key of keys (in order) that d holds, with the
\* key; NoValue when it holds none of them.
RECURSIVE FirstPresent(_, _)
FirstPresent(d, keys) ==
    IF keys = <<>> THEN NoValue
    ELSE IF Head(keys) \in DOMAIN d.fields
    THEN [kind |-> "field", key |-> Head(keys), value |-> d.fields[Head(keys)]]
    ELSE FirstPresent(d, Tail(keys))

\* C22: _extract_text_from_result returns a str as it is; for a non-empty
\* list whose first element is a dict, that element's text field, else its
\* content field, else the element serialized, and for any other first
\* element its str(); for a dict, the first present of text, content,
\* message and result in that order (result through str()), else the dict
\* serialized; any other value through str().
C22_NormalizationOrder ==
    fn = "_extract_text_from_result" =>
        LET r == arg.result
        IN  CASE r.type = "str" -> out = r
              [] r.type = "list" /\ Len(r.items) > 0 ->
                   LET first == r.items[1]
                   IN  IF first.type = "dict"
                       THEN LET f == FirstPresent(first, <<"text", "content">>)
                            IN  IF f = NoValue THEN out = json_dumps(first)
                                ELSE out = f.value
                       ELSE out = str(first)
              [] r.type = "dict" ->
                   LET f == FirstPresent(r, <<"text", "content", "message", "result">>)
                   IN  IF f = NoValue THEN out = json_dumps(r)
                       ELSE IF f.key = "result" THEN out = str(f.value)
                       ELSE out = f.value
              [] r.type = "list" /\ Len(r.items) = 0 -> TRUE
              [] OTHER -> out = str(r)

\* A dict holding content and text with different values, and a list whose
\* first element is such a dict, have been normalized.
C22_Witness ==
    /\ fn = "_extract_text_from_result"
    /\ LET d == IF arg.result.type = "list" /\ Len(arg.result.items) > 0
                THEN arg.result.items[1] ELSE arg.result
       IN  /\ d.type = "dict"
           /\ {"text", "content", "message", "result"} \subseteq DOMAIN d.fields
           /\ d.fields["text"] # d.fields["content"]
           /\ out = d.fields["text"]

\* C23: once country discovery has been attempted for a material and has
\* ended, in whatever way, every identified material has a result in
\* material_analyses whose country list is non-empty and holds at most
\* max_countries_per_material countries.
C23_EveryMaterialHasCountries ==
    (leaderCtorCalls > 0 /\ pc # "p2_loop") =>
        /\ "material_analyses" \in DOMAIN results
        /\ \A m \in Range(results["identified_raw_materials"]) :
             /\ DictHas(results["material_analyses"], m)
             /\ LET countries == DictGet(results["material_analyses"], m).countries
                IN  1 <= Len(countries) /\ Len(countries) <= max_countries_per_material

\* C24: a COMPLETED result holds, for every identified material, a
\* recommendation with a non-empty country ranking, also for a material
\* whose discovery failed or timed out and took the fallback countries.
C24_RecommendationPerMaterial ==
    ret.status = "COMPLETED" =>
        \A m \in Range(ret.identified_raw_materials) :
            LET recs == ret.final_recommendations.material_recommendations
            IN  /\ DictHas(recs, m)
                /\ DictGet(recs, m).country_rankings # <<>>

\* The expert tasks that hold the semaphore and whose agent is executing.
Executing == {f \in DOMAIN task : task[f] = "running"}

\* C25: at every moment at most config["concurrency"]["max_expert_agents"]
\* expert agents are executing, for every configured limit of at least 1;
\* the pairs run one after the other, so the count is over all pairs.
C25_ExpertConcurrencyBounded ==
    Cardinality(Executing) <= concurrency.max_expert_agents

\* Reached: under a limit of 1, one expert agent executes while the other
\* two tasks wait for the semaphore; under the default limit all three
\* execute at once.
C25_Witness ==
    /\ pc = "gather"
    /\ concurrency.max_expert_agents = 1
    /\ Cardinality(Executing) = 1
    /\ permits = 0
    /\ Cardinality({f \in FieldSet : task[f] = "pending"}) = 2
    /\ matIdx = 1 /\ ctyIdx = 2

\* The ways an expert task terminates.
Terminations == {"ok", "failed", "timeout", "raises"}

\* C26: every pair a composite was computed from has all its expert tasks
\* terminated (completed, failed, raised or timed out), and once Phase 4
\* has begun no expert task is pending or running and every pair of every
\* analysed material has been stored.
C26_AggregationAfterAllExperts ==
    /\ \A i \in DOMAIN detailed_analysis :
         \A j \in DOMAIN detailed_analysis[i].value :
           \A f \in FieldSet :
             Logged(detailed_analysis[i].key, detailed_analysis[i].value[j].key,
                    f, Terminations)
    /\ phase \in {"AGGREGATION", "COMPLETED"} =>
         /\ \A f \in DOMAIN task : task[f] = "done"
         /\ \A i \in DOMAIN material_analyses :
              material_analyses[i].value.status = "success" =>
                \A c \in Range(material_analyses[i].value.countries) :
                  /\ DictHas(detailed_analysis, material_analyses[i].key)
                  /\ DictHas(DictGet(detailed_analysis, material_analyses[i].key), c)

\* Reached: Phase 4 has computed the recommendations after a pair whose
\* experts ended in three different ways.
C26_Witness ==
    /\ pc = "p4_done"
    /\ phase = "AGGREGATION"
    /\ Logged("Cocoa Beans", "Ghana", "profitability", {"ok"})
    /\ Logged("Cocoa Beans", "Ghana", "stability", {"timeout"})
    /\ Logged("Cocoa Beans", "Ecuador", "eco-friendly", {"failed"})

\* C27: an execution that has run longer than config["timeouts"]
\* ["workflow_timeout"] returns FAILED, with the results produced so far as
\* its partial results.
C27_WorkflowTimeoutFails ==
    (pc = "returned" /\ MinElapsed > timeouts.workflow_timeout) =>
        /\ ret.status = "FAILED"
        /\ ret.partial_results = results

\* C28: the provider cache is shared by the agents of an execution: when an
\* agent's invocation follows, within the TTL, an identical invocation that
\* another agent computed, it is a cache hit returning that text.
C28_CacheSharedAcrossAgents ==
    \A a \in DOMAIN toolLog : \A y \in DOMAIN inv :
        (Follows(a, y) /\ ~SameInstance(a, CallAt(y))) =>
            /\ toolLog[CallAt(y)].ev = "hit"
            /\ toolLog[CallAt(y)].text = toolLog[a].text

\* C29: every result run returns, on success as on failure, has a
\* top-level "status" key.
C29_ResultCarriesStatus ==
    agPc = "returned" => "status" \in DOMAIN agRet

\* C30: every execution eventually returns with status COMPLETED or FAILED,
\* also when a provider or agent call never answers.
C30_EventuallyReturns ==
    <>(pc = "returned" /\ ret.status \in {"COMPLETED", "FAILED"})

(***************************************************************************)
(* Claims about provider faults and Phase 1 (SpecAgent, Spec)              *)
(***************************************************************************)
\* Error entries execution_history gained in the current use_tool invocation.
ErrorAttempts ==
    Cardinality({i \in (histBefore + 1)..Len(execution_history) :
                    execution_history[i] = "error"})

\* C31: every exception that occurred inside a provider's execute during a
\* use_tool invocation was seen by use_tool as a fault, that is, recorded as
\* an error attempt in execution_history (and so retried with backoff).
C31_ProviderFaultIsErrorAttempt ==
    swallowed <= ErrorAttempts

\* C32: Phase 1 invokes the language model at most once per execution,
\* whatever the response: an execution that has its response, be it
\* malformed, empty or too short, has made exactly one invocation.
C32_OneModelCall ==
    /\ llmCalls <= 1
    /\ (response # NoValue) => llmCalls = 1

\* C32 witness: an execution that returned after a response that held
\* fewer than 3 materials (none, when it was malformed), with one call made.
C32_Witness ==
    /\ pc = "returned"
    /\ llmCalls = 1
    /\ response # NoValue
    /\ Len(_parse_simple_json_response(WfExtractText(response))) < 3

(***************************************************************************)
(* Claims about score extraction and result normalization (SpecScoring)    *)
(***************************************************************************)
\* The captured numbers of pattern p in the text that lie in [1, 10].
InRangeMatches(p, text) ==
    SelectSeq(findall(p, text), LAMBDA v : 10 <= v /\ v <= 100)

\* The first match in [1, 10], by pattern order and then by text order;
\* the heuristic when there is none.
RECURSIVE FirstInRange(_, _)
FirstInRange(text, patterns) ==
    IF patterns = <<>> THEN _sentiment_based_scoring(text)
    ELSE IF InRangeMatches(Head(patterns), text) # <<>>
    THEN InRangeMatches(Head(patterns), text)[1]
    ELSE FirstInRange(text, Tail(patterns))

\* C33: score extraction tries the four patterns in order and returns the
\* first match whose value lies in [1, 10]; a match outside [1, 10] is
\* skipped, and later matches of the same pattern and of later patterns are
\* considered before the heuristic is used.
C33_FirstInRangeMatchWins ==
    fn = "_extract_expert_score" => out = FirstInRange(arg.text, score_patterns)

(***************************************************************************)
(* Claims about the provider cache's keys and size (SpecTool)              *)
(***************************************************************************)
\* C34: a cache hit only ever returns a response that was produced for the
\* identical argument set: the text of every hit was computed, earlier, by
\* an invocation with the same arguments as the invocation that hit.
C34_HitOnlyForIdenticalArguments ==
    \A b \in DOMAIN toolLog :
        toolLog[b].ev = "hit" =>
            \E a \in 1..(b - 1) :
                /\ toolLog[a].ev = "computed"
                /\ toolLog[a].text = toolLog[b].text
                /\ inv[toolLog[a].inv].args = inv[toolLog[b].inv].args

\* C35 (checked under SpecCache): after every execute the cache holds at
\* most its size ceiling of entries (50 for ClaudeTool, 100 for
\* DuckDuckGoTool); the entries a call's cleaning removes are older than,
\* or as old as, every entry it leaves; and the entry the call stored is
\* left in the cache.
C35_CacheCeilingOldestFirst ==
    /\ [](Len(cache) <= cache_ceiling(tool))
    /\ [][cache' # cache =>
            /\ CacheIndex(cache', NumberedKey(tool, inv'[1].args)) # 0
            /\ Len(cache') < Len(cache) =>
                 \A i \in DOMAIN cache :
                    CacheIndex(cache', cache[i].key) = 0
                        => \A j \in DOMAIN cache' :
                             cache[i].timestamp <= cache'[j].timestamp]_vars

\* C35 witness: the call with argument set number ceiling + 1 has just
\* triggered the cleaning; its entry is the last of the cache, and the entry
\* of argument set 1, stored again after it had expired, was left though it
\* is the first in dict order.
C35_Witness ==
    /\ tool # "none"
    /\ inv # <<>>
    /\ inv[1].args = cache_ceiling(tool) + 1
    /\ Len(cache) = cache_ceiling(tool) + 1 - cache_evicted(tool)
    /\ cache[Len(cache)].key = NumberedKey(tool, inv[1].args)
    /\ cache[1].key = NumberedKey(tool, 1)
    /\ cache[1].timestamp > cache[2].timestamp

\* C36: the orchestrator's result normalization returns, for every provider
\* result (string, sequence of records, map), the text the agents'
\* normalization returns for it.
C36_OneCanonicalText ==
    fn = "RawMaterialSourcingWorkflow._extract_text_from_result" =>
        out = _extract_text_from_result(arg.result)

(***************************************************************************)
(* Claims about the results of an execution (Spec, SpecExperts)            *)
(***************************************************************************)
\* What Phase 1 made of the model's response.
Identified == _identify_raw_materials(industry_context, response)

\* Materials whose Phase-2 branch had completed: every material a
\* LeaderAgent was constructed for but the one whose constructor call raised.
CompletedDiscoveries == IF leaderCtorCalls = 0 THEN 0 ELSE leaderCtorCalls - 1

MetricsAddUp(m) == m.agent_executions = m.successful_agents + m.failed_agents

\* C38: agent_executions = successful_agents + failed_agents whenever no
\* agent call is in progress, and in the performance metrics of every
\* returned result, also when agents time out or raise.
C38_MetricsAddUp ==
    /\ Executing = {} => MetricsAddUp(performance_metrics)
    /\ pc = "returned" => MetricsAddUp(ret.performance_metrics)

\* C39 (checked under SpecExperts): for every material of
\* material_recommendations whose country_rankings is not empty,
\* recommended_country is the country at rank 1 of country_rankings and
\* recommended_score is that country's composite score.
C39_RecommendedIsRankOne ==
    "final_recommendations" \in DOMAIN results =>
        LET recs == results["final_recommendations"].material_recommendations
        IN  \A k \in DOMAIN recs :
              LET rec == recs[k].value
              IN  rec.country_rankings # <<>> =>
                    /\ rec.recommended_country = rec.country_rankings[1].country
                    /\ rec.recommended_score = rec.country_rankings[1].overall_score

\* C39 witness: a material with two ranked countries of different composite
\* scores, the second discovered one at rank 1 and recommended.
C39_Witness ==
    /\ "final_recommendations" \in DOMAIN results
    /\ \E k \in DOMAIN results["final_recommendations"].material_recommendations :
         LET rec == results["final_recommendations"].material_recommendations[k]
             r == rec.value.country_rankings
         IN  /\ Len(r) = 2
             /\ r[1].overall_score > r[2].overall_score
             /\ DiscoveryIndex(rec.key, r[1].country) = 2
             /\ rec.value.recommended_country = r[1].country
             /\ rec.value.recommended_score = r[1].overall_score

\* C40 (checked under Spec): the materials handed to Phase 2 are pairwise
\* distinct, also when the list was extended from the fallback table.
C40_MaterialsDistinct ==
    "identified_raw_materials" \in DOMAIN results =>
        LET m == results["identified_raw_materials"]
        IN  \A i, j \in DOMAIN m : i # j => m[i] # m[j]
====
